---- MODULE Spec2Model ----
(***************************************************************************)
(* Model of the CricMetrics IPL ingestion pipeline (fetch_ipl_data.py),    *)
(* its fact store (src/utils/database.py), the rule-based classifier       *)
(* (src/analytics/player_classifier.py), the consistency metric            *)
(* (src/analytics/metrics.py) and the team analyzer                        *)
(* (src/analytics/team_analyzer.py).                                       *)
(*                                                                         *)
(* Text values on which the code performs string operations (substring,    *)
(* split, lower, f-string concatenation) are sequences of one-character    *)
(* strings.  Real numbers are fixed-point integers or exact fractions.     *)
(***************************************************************************)
EXTENDS Integers, Sequences, FiniteSets, TLC

VARIABLES db, txn, pc, run, idx, processed, skipped, duplicates,
          processed_matches, log, cin, cout

vars == <<db, txn, pc, run, idx, processed, skipped, duplicates,
          processed_matches, log, cin, cout>>

ingestVars == <<db, txn, pc, run, idx, processed, skipped, duplicates,
                processed_matches, log>>

classVars == <<cin, cout>>

(***************************************************************************)
(* Bounds of the model.                                                    *)
(***************************************************************************)
MaxRuns == 2
MaxExamined == 3
MaxFactRecords == 2
MaxDeliveries == 2
MaxSamples == 11
MaxGateRecords == 2
MaxFacts == 22
MaxImpactFacts == 2
MaxTeamMatches == 2
MaxRepeats == 2
MaxBatchFiles == 101
MaxBodyOps == 3
MaxPressureFacts == 3
MaxPipelineRecords == 2
MaxInningsBalls == 10

(***************************************************************************)
(* Python values.                                                          *)
(***************************************************************************)
None == "<None>"
NoneTxt == <<"<None>">>

RECURSIVE SumSeq(_)
SumSeq(s) == IF s = <<>> THEN 0 ELSE Head(s) + SumSeq(Tail(s))

\* str `sub in s`
Contains(s, sub) ==
    \E i \in 0..(Len(s) - Len(sub)) : SubSeq(s, i + 1, i + Len(sub)) = sub

\* str.split(sep)[0] for a one-character separator
RECURSIVE SplitFirst(_, _)
SplitFirst(s, sep) ==
    IF s = <<>> \/ Head(s) = sep THEN <<>>
    ELSE <<Head(s)>> \o SplitFirst(Tail(s), sep)

Digits == <<"0", "1", "2", "3", "4", "5", "6", "7", "8", "9">>

IsDigit(c) == \E d \in 1..10 : Digits[d] = c

DigitVal(c) == (CHOOSE d \in 1..10 : Digits[d] = c) - 1

\* int(s) of a text: defined on non-empty digit strings, ValueError otherwise
IntParses(s) == s # <<>> /\ \A i \in 1..Len(s) : IsDigit(s[i])

RECURSIVE IntOf(_)
IntOf(s) ==
    IF s = <<>> THEN 0
    ELSE IntOf(SubSeq(s, 1, Len(s) - 1)) * 10 + DigitVal(s[Len(s)])

\* str(n) of a natural number, as the f-string formats it
RECURSIVE StrOf(_)
StrOf(n) ==
    IF n < 10 THEN <<Digits[n + 1]>>
    ELSE StrOf(n \div 10) \o <<Digits[(n % 10) + 1]>>

\* str.lower() on the alphabet the model's texts use
LowerChar(c) ==
    CASE c = "F" -> "f"
      [] c = "I" -> "i"
      [] c = "N" -> "n"
      [] c = "A" -> "a"
      [] c = "L" -> "l"
      [] c = "V" -> "v"
      [] c = "W" -> "w"
      [] OTHER -> c

Lower(s) == [i \in 1..Len(s) |-> LowerChar(s[i])]

(***************************************************************************)
(* Texts of the model.                                                     *)
(***************************************************************************)
TxtIPLLong == <<"I", "n", "d", "i", "a", "n", " ", "P", "r", "e", "m", "i",
                "e", "r", " ", "L", "e", "a", "g", "u", "e">>
TxtIPL == <<"I", "P", "L">>
TxtFinal == <<"f", "i", "n", "a", "l">>
TxtUnknown == <<"U", "n", "k", "n", "o", "w", "n">>
TxtUnderscore == <<"_">>

YearFrom == 2016
YearTo == 2024
CommitEvery == 50


(***************************************************************************)
(* Fact store: three tables, each a sequence of rows in rowid order.       *)
(***************************************************************************)
EmptyStore == [matches |-> <<>>, batting |-> <<>>, bowling |-> <<>>]

\* round(n / d) to the nearest integer, ties to even (Python round)
RoundDiv(n, d) ==
    LET q == n \div d
        r == n % d
    IN  IF 2 * r < d THEN q
        ELSE IF 2 * r > d THEN q + 1
        ELSE IF q % 2 = 0 THEN q ELSE q + 1

(***************************************************************************)
(* Validation gates of one record, up to the match identifier.             *)
(* st: "skip" (skipped += 1; continue), "raise" (exception), "ok".         *)
(***************************************************************************)
Season(info) ==
    IF info.season.isStr THEN IntOf(SplitFirst(info.season.text, "/"))
    ELSE info.season.num

SeasonRaises(info) ==
    info.season.isStr /\ ~IntParses(SplitFirst(info.season.text, "/"))

IsTargetEvent(event_name) ==
    Contains(event_name, TxtIPLLong) \/ Contains(event_name, TxtIPL)

\* the season window opened one year early
SeasonInRange_FromYearBefore(season) ==
    ~(season < YearFrom - 1 \/ season > YearTo)

SeasonInRange(season) == ~(season < YearFrom \/ season > YearTo)

TeamsGate(teams) == ~(Len(teams) < 2)

Gates(info) ==
    IF ~IsTargetEvent(info.event_name) THEN [st |-> "skip", exc |-> "none"]
    ELSE IF SeasonRaises(info) THEN [st |-> "raise", exc |-> "ValueError"]
    ELSE IF ~SeasonInRange(Season(info)) THEN [st |-> "skip", exc |-> "none"]
    ELSE IF info.dates = <<>> THEN [st |-> "raise", exc |-> "IndexError"]
    ELSE IF info.dates[1] = <<>> THEN [st |-> "skip", exc |-> "none"]
    ELSE IF ~TeamsGate(info.teams) THEN [st |-> "skip", exc |-> "none"]
    ELSE [st |-> "ok", exc |-> "none"]

\* f"{season}_{match_date}_{team1}_{team2}_{venue}"
MatchIdentifier(season, match_date, team1, team2, venue) ==
    StrOf(season) \o TxtUnderscore \o match_date \o TxtUnderscore \o team1
        \o TxtUnderscore \o team2 \o TxtUnderscore \o venue

IdentifierOf(info) ==
    MatchIdentifier(Season(info), info.dates[1], info.teams[1],
                    info.teams[2], info.venue)

\* the fixture fingerprint (season, date, team1, team2, venue) of a record
\* that passed the gates
Fingerprint(info) ==
    <<Season(info), info.dates[1], info.teams[1], info.teams[2], info.venue>>

\* the venue is searched as it is written
MatchType_CaseSensitive(venue) ==
    IF Contains(venue, TxtFinal) THEN "Final" ELSE "League"

\* match_type = 'Final' if 'final' in venue.lower() else 'League'
MatchType(venue) == IF Contains(Lower(venue), TxtFinal) THEN "Final" ELSE "League"

ResultType(outcome) ==
    IF outcome.by = "runs" THEN "runs"
    ELSE IF outcome.by = "wickets" THEN "wickets"
    ELSE "tie"

ResultMargin(outcome) ==
    IF outcome.by = "runs" \/ outcome.by = "wickets" THEN outcome.margin ELSE 0

MatchRow(match_id, info) ==
    [match_id |-> match_id,
     season |-> Season(info),
     match_date |-> info.dates[1],
     venue |-> info.venue,
     city |-> info.city,
     team1 |-> info.teams[1],
     team2 |-> info.teams[2],
     toss_winner |-> info.toss.winner,
     toss_decision |-> info.toss.decision,
     winner |-> info.outcome.winner,
     result_type |-> ResultType(info.outcome),
     result_margin |-> ResultMargin(info.outcome),
     player_of_match |-> IF info.player_of_match = <<>> THEN None
                         ELSE info.player_of_match[1],
     match_type |-> MatchType(info.venue)]

\* INSERT OR IGNORE INTO matches: the row is ignored only when it violates a
\* uniqueness constraint of the table; the schema declares none besides the
\* auto-assigned primary key.
MatchesConflict(matches, info) == FALSE

\* cursor.lastrowid after the INSERT OR IGNORE: the new rowid, 0 if ignored
InsertMatch(store, info) ==
    IF MatchesConflict(store.matches, info)
    THEN [store |-> store, lastrowid |-> 0]
    ELSE LET match_id == Len(store.matches) + 1
         IN  [store |-> [store EXCEPT !.matches =
                            Append(@, MatchRow(match_id, info))],
              lastrowid |-> match_id]

(***************************************************************************)
(* Per-innings fact construction.  A Python dict is a sequence of entries  *)
(* in insertion order.  The deliveries of an innings are its overs'        *)
(* deliveries in over-then-ball order.                                     *)
(*                                                                         *)
(* delivery.fault: "none"; "runs" - the 'runs' value is not a mapping, so   *)
(* .get raises AttributeError in the batting walk; "total" - runs.total is *)
(* not a number, so += raises TypeError in the bowling walk.               *)
(***************************************************************************)
\* a membership test that never finds the key
HasKey_Never(d, k) == FALSE

HasKey(d, k) == \E i \in 1..Len(d) : d[i].key = k

KeyIndex(d, k) ==
    CHOOSE i \in 1..Len(d) :
        d[i].key = k /\ \A j \in (i + 1)..Len(d) : d[j].key # k

\* every wicket event taken as the striker's dismissal
Dismisses_Anyone(wicket, batter) == TRUE

\* if wicket.get('player_out') == batter
Dismisses(wicket, batter) == wicket.player_out = batter

\* for wicket in delivery['wickets']: if player_out == batter: dismissal = kind
RECURSIVE Dismissal(_, _, _)
Dismissal(wickets, batter, current) ==
    IF wickets = <<>> THEN current
    ELSE Dismissal(Tail(wickets), batter,
                   IF Dismisses(Head(wickets), batter)
                   THEN Head(wickets).kind ELSE current)

\* a six also counted as a four
Credit_SixIsFour(e, runs) ==
    [e EXCEPT !.runs = @ + runs,
              !.balls = @ + 1,
              !.fours = IF runs >= 4 THEN @ + 1 ELSE @,
              !.sixes = IF runs = 6 THEN @ + 1 ELSE @]

\* runs += runs; balls += 1; if runs == 4: fours += 1 elif runs == 6: sixes += 1
Credit(e, runs) ==
    [e EXCEPT !.runs = @ + runs,
              !.balls = @ + 1,
              !.fours = IF runs = 4 THEN @ + 1 ELSE @,
              !.sixes = IF runs # 4 /\ runs = 6 THEN @ + 1 ELSE @]

BatterStep(acc, delivery) ==
    LET batter == delivery.batter
        runs == delivery.rb
        isNew == ~HasKey(acc.d, batter)
        d1 == IF isNew
              THEN Append(acc.d, [key |-> batter, runs |-> 0, balls |-> 0,
                                  fours |-> 0, sixes |-> 0,
                                  position |-> acc.position,
                                  dismissal |-> None])
              ELSE acc.d
        i == KeyIndex(d1, batter)
        e1 == [Credit(d1[i], runs) EXCEPT
                  !.dismissal = Dismissal(delivery.wickets, batter, @)]
    IN  [d |-> [d1 EXCEPT ![i] = e1],
         position |-> IF isNew THEN acc.position + 1 ELSE acc.position]

RECURSIVE BattingWalk(_, _)
BattingWalk(deliveries, acc) ==
    IF deliveries = <<>> THEN [exc |-> "none", d |-> acc.d]
    ELSE IF Head(deliveries).fault = "runs"
         THEN [exc |-> "AttributeError", d |-> acc.d]
         ELSE BattingWalk(Tail(deliveries), BatterStep(acc, Head(deliveries)))

\* the position counter started at 0
BatterStats_FromZero(deliveries) ==
    BattingWalk(deliveries, [d |-> <<>>, position |-> 0])

BatterStats(deliveries) == BattingWalk(deliveries, [d |-> <<>>, position |-> 1])

BattingRow(id, match_id, team, innings_num, e) ==
    [id |-> id, match_id |-> match_id, player_name |-> e.key, team |-> team,
     innings_number |-> innings_num, runs |-> e.runs, balls |-> e.balls,
     fours |-> e.fours, sixes |-> e.sixes,
     strike_rate |-> [num |-> e.runs * 100, den |-> e.balls],
     position |-> e.position, dismissal_kind |-> e.dismissal,
     is_not_out |-> (e.dismissal = None)]

\* for batter, stats in batter_stats.items(): INSERT INTO batting_stats;
\* player_name and team are NOT NULL: a null raises IntegrityError and the
\* rows inserted before it stay in the transaction
RECURSIVE InsertBatting(_, _, _, _, _)
InsertBatting(table, d, match_id, team, innings_num) ==
    IF d = <<>> THEN [exc |-> "none", table |-> table]
    ELSE IF ~(Head(d).balls > 0)
         THEN InsertBatting(table, Tail(d), match_id, team, innings_num)
    ELSE IF Head(d).key = None \/ team = NoneTxt
         THEN [exc |-> "IntegrityError", table |-> table]
    ELSE InsertBatting(
             Append(table, BattingRow(Len(table) + 1, match_id, team,
                                      innings_num, Head(d))),
             Tail(d), match_id, team, innings_num)

\* the batter's runs charged to the bowler instead of the total runs
BowlerStep_BatterRuns(d, delivery) ==
    LET bowler == delivery.bowler
        runs == delivery.rb
        d1 == IF ~HasKey(d, bowler)
              THEN Append(d, [key |-> bowler, balls |-> 0, runs |-> 0,
                              wickets |-> 0, dots |-> 0])
              ELSE d
        i == KeyIndex(d1, bowler)
    IN  [d1 EXCEPT ![i] = [@ EXCEPT !.balls = @ + 1,
                                    !.runs = @ + runs,
                                    !.dots = IF runs = 0 THEN @ + 1 ELSE @,
                                    !.wickets = @ + Len(delivery.wickets)]]

BowlerStep(d, delivery) ==
    LET bowler == delivery.bowler
        runs == delivery.rt
        d1 == IF ~HasKey(d, bowler)
              THEN Append(d, [key |-> bowler, balls |-> 0, runs |-> 0,
                              wickets |-> 0, dots |-> 0])
              ELSE d
        i == KeyIndex(d1, bowler)
    IN  [d1 EXCEPT ![i] = [@ EXCEPT !.balls = @ + 1,
                                    !.runs = @ + runs,
                                    !.dots = IF runs = 0 THEN @ + 1 ELSE @,
                                    !.wickets = @ + Len(delivery.wickets)]]

RECURSIVE BowlingWalk(_, _)
BowlingWalk(deliveries, d) ==
    IF deliveries = <<>> THEN [exc |-> "none", d |-> d]
    ELSE IF Head(deliveries).fault = "total"
         THEN [exc |-> "TypeError", d |-> d]
         ELSE BowlingWalk(Tail(deliveries), BowlerStep(d, Head(deliveries)))

BowlerStats(deliveries) == BowlingWalk(deliveries, <<>>)

\* overs rounded to whole overs
OversTenths_WholeOvers(balls) == RoundDiv(balls, 6) * 10

\* overs = balls / 6.0, stored as round(overs, 1): tenths of an over
OversTenths(balls) == RoundDiv(balls * 10, 6)

\* economy = runs / overs if overs > 0 else 0, stored as round(economy, 2):
\* hundredths of a run per over
EconomyHundredths(runs, balls) ==
    IF balls > 0 THEN RoundDiv(runs * 600, balls) ELSE 0

BowlingTeam(team, team1, team2) == IF team = team1 THEN team2 ELSE team1

BowlingRow(id, match_id, bowling_team, innings_num, e) ==
    [id |-> id, match_id |-> match_id, player_name |-> e.key,
     team |-> bowling_team, innings_number |-> innings_num,
     overs |-> OversTenths(e.balls), runs_conceded |-> e.runs,
     wickets |-> e.wickets, economy |-> EconomyHundredths(e.runs, e.balls),
     dots |-> e.dots]

RECURSIVE InsertBowling(_, _, _, _, _)
InsertBowling(table, d, match_id, bowling_team, innings_num) ==
    IF d = <<>> THEN [exc |-> "none", table |-> table]
    ELSE IF ~(Head(d).balls > 0)
         THEN InsertBowling(table, Tail(d), match_id, bowling_team, innings_num)
    ELSE IF Head(d).key = None \/ bowling_team = NoneTxt
         THEN [exc |-> "IntegrityError", table |-> table]
    ELSE InsertBowling(
             Append(table, BowlingRow(Len(table) + 1, match_id, bowling_team,
                                      innings_num, Head(d))),
             Tail(d), match_id, bowling_team, innings_num)

\* one pass of `for inning in match_data.get('innings', [])`
ProcessInning(store, inning, innings_num, match_id, team1, team2) ==
    LET bat == BatterStats(inning.deliveries)
    IN  IF bat.exc # "none" THEN [exc |-> bat.exc, store |-> store]
        ELSE
        LET ib == InsertBatting(store.batting, bat.d, match_id, inning.team,
                                innings_num)
            s1 == [store EXCEPT !.batting = ib.table]
        IN  IF ib.exc # "none" THEN [exc |-> ib.exc, store |-> s1]
            ELSE
            LET bowl == BowlerStats(inning.deliveries)
            IN  IF bowl.exc # "none" THEN [exc |-> bowl.exc, store |-> s1]
                ELSE
                LET iw == InsertBowling(s1.bowling, bowl.d, match_id,
                                        BowlingTeam(inning.team, team1, team2),
                                        innings_num)
                IN  [exc |-> iw.exc,
                     store |-> [s1 EXCEPT !.bowling = iw.table]]

RECURSIVE ProcessInnings(_, _, _, _, _, _)
ProcessInnings(store, innings, innings_num, match_id, team1, team2) ==
    IF innings = <<>> THEN [exc |-> "none", store |-> store]
    ELSE LET r == ProcessInning(store, Head(innings), innings_num + 1,
                                match_id, team1, team2)
         IN  IF r.exc # "none" THEN r
             ELSE ProcessInnings(r.store, Tail(innings), innings_num + 1,
                                 match_id, team1, team2)

(***************************************************************************)
(* One pass of the ingestion loop body on one record.                      *)
(* s: [txn, pm, processed, skipped, duplicates]; the result adds exc (the   *)
(* exception raised on this record, "none" if none) and commit (whether    *)
(* conn.commit() was called).                                              *)
(***************************************************************************)
\* no commit inside the loop
BatchCommitDue_Never(count) == FALSE

\* if processed % 50 == 0: conn.commit()
BatchCommitDue(count) == count % CommitEvery = 0

\* the identifier is never remembered
MarkProcessed_Forget(pm, ident) == pm

MarkProcessed(pm, ident) == pm \cup {ident}

Outcome(s, exc, commit) ==
    [txn |-> s.txn, pm |-> s.pm, processed |-> s.processed,
     skipped |-> s.skipped, duplicates |-> s.duplicates,
     exc |-> exc, commit |-> commit]

LoopBody(rec, s) ==
    LET info == rec.info
        g == Gates(info)
    IN
    IF g.st = "skip" THEN Outcome([s EXCEPT !.skipped = @ + 1], "none", FALSE)
    ELSE IF g.st = "raise" THEN Outcome(s, g.exc, FALSE)
    ELSE
    LET match_identifier == IdentifierOf(info)
    IN
    IF match_identifier \in s.pm
    THEN Outcome([s EXCEPT !.duplicates = @ + 1], "none", FALSE)
    ELSE IF ~info.toss.isDict THEN Outcome(s, "AttributeError", FALSE)
    ELSE
    LET ins == InsertMatch(s.txn, info)
    IN
    IF ins.lastrowid = 0
    THEN Outcome([s EXCEPT !.txn = ins.store, !.duplicates = @ + 1],
                 "none", FALSE)
    ELSE
    LET pm1 == MarkProcessed(s.pm, match_identifier)
        r == ProcessInnings(ins.store, rec.innings, 0, ins.lastrowid,
                            info.teams[1], info.teams[2])
    IN
    IF r.exc # "none"
    THEN Outcome([s EXCEPT !.txn = r.store, !.pm = pm1], r.exc, FALSE)
    ELSE Outcome([s EXCEPT !.txn = r.store, !.pm = pm1,
                           !.processed = @ + 1],
                 "none", BatchCommitDue(s.processed + 1))

\* an except clause that names only some exception classes
Caught_ValueErrorOnly(exc) == exc = "ValueError"

\* except Exception as e: continue
Caught(exc) == TRUE

(***************************************************************************)
(* Input records.                                                          *)
(***************************************************************************)
TeamA == <<"A">>
TeamB == <<"B">>
VenueV == <<"V">>
Date1 == <<"d", "1">>
Date2 == <<"d", "2">>
Season2020 == [isStr |-> TRUE, text |-> <<"2", "0", "2", "0">>, num |-> 0]

Delivery(batter, bowler, rb, rt, wickets, fault) ==
    [batter |-> batter, bowler |-> bowler, rb |-> rb, rt |-> rt,
     wickets |-> wickets, fault |-> fault]

Wicket(player_out, kind) == [player_out |-> player_out, kind |-> kind]

DelFour == Delivery("X", "P", 4, 5, <<>>, "none")
DelBowled == Delivery("X", "Q", 0, 0, <<Wicket("X", "bowled")>>, "none")
DelSixRunOut == Delivery("Y", "Q", 6, 6, <<Wicket("X", "run out")>>, "none")
DelBadRuns == Delivery("Y", "Q", 0, 0, <<>>, "runs")
DelBadTotal == Delivery("Y", "Q", 1, 0, <<>>, "total")
DelNoBowler == Delivery("Y", None, 1, 1, <<>>, "none")
DelRetired == Delivery("X", "P", 1, 1, <<Wicket("X", "retired hurt")>>, "none")

Inning(team, deliveries) == [team |-> team, deliveries |-> deliveries]

Info(event_name, season, dates, teams, venue, tossIsDict) ==
    [event_name |-> event_name, season |-> season, dates |-> dates,
     teams |-> teams, venue |-> venue, city |-> TxtUnknown,
     toss |-> [isDict |-> tossIsDict, winner |-> TeamA, decision |-> "bat"],
     outcome |-> [winner |-> TeamA, by |-> "runs", margin |-> 5],
     player_of_match |-> <<"X">>]

InfoFixture1 == Info(TxtIPL, Season2020, <<Date1>>, <<TeamA, TeamB>>, VenueV, TRUE)
InfoFixture2 == Info(TxtIPL, Season2020, <<Date2>>, <<TeamA, TeamB>>, VenueV, TRUE)
InfoBadToss == Info(TxtIPL, Season2020, <<Date1>>, <<TeamA, TeamB>>, VenueV, FALSE)
InfoOtherEvent == Info(<<"B", "B", "L">>, Season2020, <<Date1>>, <<TeamA, TeamB>>, VenueV, TRUE)

Rec(info, innings) == [info |-> info, innings |-> innings]

SimpleInnings == <<Inning(TeamA, <<DelFour>>)>>

TwoInnings ==
    <<Inning(TeamA, <<DelFour, DelSixRunOut>>), Inning(TeamB, <<DelBowled>>)>>

\* innings lists on which the fact construction raises
BadInningsLists ==
    {<<Inning(TeamA, <<DelFour, DelBadRuns>>)>>,
     <<Inning(TeamA, <<DelFour, DelBadTotal>>), Inning(TeamB, <<DelBowled>>)>>,
     <<Inning(TeamA, <<DelFour>>), Inning(TeamB, <<DelSixRunOut, DelBadTotal>>)>>,
     <<Inning(TeamA, <<DelFour, DelNoBowler>>)>>}

\* the records of the ingestion runs: valid ones, two of them of the same
\* fixture, and ones failing at each stage of the loop body
Records ==
    {Rec(InfoFixture1, il) : il \in {SimpleInnings, TwoInnings} \cup BadInningsLists}
    \cup {Rec(InfoFixture2, SimpleInnings),
          Rec(InfoBadToss, SimpleInnings),
          Rec(InfoOtherEvent, SimpleInnings)}

\* valid records with every innings of up to MaxDeliveries deliveries
GoodDeliveries == {DelFour, DelSixRunOut}

DeliverySeqs == UNION {[1..n -> GoodDeliveries] : n \in 1..MaxDeliveries}

FactRecords ==
    {Rec(InfoFixture1, <<Inning(TeamA, ds)>>) : ds \in DeliverySeqs}
    \cup {Rec(InfoFixture2, il) :
             il \in {TwoInnings,
                     <<Inning(TeamA, <<DelFour, DelBowled>>)>>,
                     <<Inning(TeamA, <<DelRetired, DelBowled>>)>>,
                     <<Inning(TeamB, <<DelBowled, DelSixRunOut>>),
                       Inning(TeamA, <<DelSixRunOut, DelFour>>)>>}}

\* records that differ in the header fields the gates read: the season in
\* each of its forms and on both sides of each end of the window, team
\* lists of every length from 0 to 3, one with the same team twice, and a
\* match with a third innings (a super over)
SeasonStr(text) == [isStr |-> TRUE, text |-> text, num |-> 0]

SeasonInt(num) == [isStr |-> FALSE, text |-> <<>>, num |-> num]

TeamC == <<"C">>

InfoSeason(season) == Info(TxtIPLLong, season, <<Date1>>, <<TeamA, TeamB>>, VenueV, TRUE)

InfoTeams(teams) == Info(TxtIPL, Season2020, <<Date2>>, teams, VenueV, TRUE)

ThreeInnings ==
    <<Inning(TeamA, <<DelFour>>), Inning(TeamB, <<DelBowled>>),
      Inning(TeamA, <<DelSixRunOut>>)>>

GateRecords ==
    {Rec(InfoFixture1, SimpleInnings),
     Rec(InfoOtherEvent, SimpleInnings),
     Rec(InfoFixture2, ThreeInnings)}
    \cup {Rec(InfoSeason(s), SimpleInnings) :
             s \in {SeasonStr(<<"2", "0", "1", "5">>),
                    SeasonStr(<<"2", "0", "1", "6">>),
                    SeasonStr(<<"2", "0", "2", "3", "/", "2", "4">>),
                    SeasonInt(2024),
                    SeasonInt(2025)}}
    \cup {Rec(InfoTeams(t), SimpleInnings) :
             t \in {<<>>, <<TeamA>>, <<TeamA, TeamB, TeamC>>, <<TeamA, TeamA>>}}

(***************************************************************************)
(* Classifier.  The aggregates of the SQL query are fixed-point numbers in *)
(* hundredths (avg_sr 14500 is 145.00); n is the sample count (innings,    *)
(* or distinct matches for a bowler); confidence is in hundredths.         *)
(***************************************************************************)
MinSamples == 10

Result(class, confidence) == [class |-> class, confidence |-> confidence]

InsufficientData == Result("Insufficient Data", 0)

\* the Aggressive Opener rule tried before the Finisher rule and the
\* Accumulator rule before the Anchor rule
ClassifyBatsman_Reordered(a) ==
    IF a.n < MinSamples THEN InsufficientData
    ELSE IF a.avg_sr > 14500 /\ a.boundaries > 700
         THEN Result("Power Hitter", 85)
    ELSE IF a.position <= 200 /\ a.avg_sr > 14000
         THEN Result("Aggressive Opener", 88)
    ELSE IF a.position > 500 /\ a.avg_sr > 14000 /\ a.avg_runs > 2000
         THEN Result("Finisher", 82)
    ELSE IF a.avg_sr >= 11500 /\ a.avg_sr <= 13000 /\ a.avg_runs > 3000
         THEN Result("Accumulator", 75)
    ELSE IF a.avg_sr >= 12000 /\ a.avg_sr <= 13500 /\ a.fifty_rate > 2000
         THEN Result("Anchor", 80)
    ELSE IF a.position >= 300 /\ a.position <= 500 /\ a.avg_runs > 2500
         THEN Result("Middle Order Stabilizer", 78)
    ELSE Result("All-rounder Batsman", 65)

ClassifyBatsman(a) ==
    IF a.n < MinSamples THEN InsufficientData
    ELSE IF a.avg_sr > 14500 /\ a.boundaries > 700
         THEN Result("Power Hitter", 85)
    ELSE IF a.position > 500 /\ a.avg_sr > 14000 /\ a.avg_runs > 2000
         THEN Result("Finisher", 82)
    ELSE IF a.position <= 200 /\ a.avg_sr > 14000
         THEN Result("Aggressive Opener", 88)
    ELSE IF a.avg_sr >= 12000 /\ a.avg_sr <= 13500 /\ a.fifty_rate > 2000
         THEN Result("Anchor", 80)
    ELSE IF a.avg_sr >= 11500 /\ a.avg_sr <= 13000 /\ a.avg_runs > 3000
         THEN Result("Accumulator", 75)
    ELSE IF a.position >= 300 /\ a.position <= 500 /\ a.avg_runs > 2500
         THEN Result("Middle Order Stabilizer", 78)
    ELSE Result("All-rounder Batsman", 65)

\* a rule of classify_bowler fires before the rules written after it
ClassifyBowler_WicketTakerFirst(a) ==
    IF a.n < MinSamples THEN InsufficientData
    ELSE IF a.wpm >= 130 THEN Result("Wicket Taker", 88)
    ELSE IF a.economy < 900 /\ a.wpm >= 80
         THEN Result("Death Specialist", 85)
    ELSE IF a.economy < 750 /\ a.dot_pct > 4500
         THEN Result("Economy Bowler", 82)
    ELSE IF a.wpm >= 100 /\ a.economy < 800
         THEN Result("Powerplay Expert", 80)
    ELSE Result("All-Phase Bowler", 70)

ClassifyBowler_StrictWpm(a) ==
    IF a.n < MinSamples THEN InsufficientData
    ELSE IF a.economy < 900 /\ a.wpm > 80
         THEN Result("Death Specialist", 85)
    ELSE IF a.wpm >= 130 THEN Result("Wicket Taker", 88)
    ELSE IF a.economy < 750 /\ a.dot_pct > 4500
         THEN Result("Economy Bowler", 82)
    ELSE IF a.wpm >= 100 /\ a.economy < 800
         THEN Result("Powerplay Expert", 80)
    ELSE Result("All-Phase Bowler", 70)

\* the Powerplay Expert rule tried first
ClassifyBowler_PowerplayFirst(a) ==
    IF a.n < MinSamples THEN InsufficientData
    ELSE IF a.wpm >= 100 /\ a.economy < 800
         THEN Result("Powerplay Expert", 80)
    ELSE IF a.economy < 900 /\ a.wpm >= 80
         THEN Result("Death Specialist", 85)
    ELSE IF a.wpm >= 130 THEN Result("Wicket Taker", 88)
    ELSE IF a.economy < 750 /\ a.dot_pct > 4500
         THEN Result("Economy Bowler", 82)
    ELSE Result("All-Phase Bowler", 70)

\* the confidence of the fallback class growing with the sample count
ClassifyBowler_ScaledConfidence(a) ==
    IF a.n < MinSamples THEN InsufficientData
    ELSE IF a.economy < 900 /\ a.wpm >= 80
         THEN Result("Death Specialist", 85)
    ELSE IF a.wpm >= 130 THEN Result("Wicket Taker", 88)
    ELSE IF a.economy < 750 /\ a.dot_pct > 4500
         THEN Result("Economy Bowler", 82)
    ELSE IF a.wpm >= 100 /\ a.economy < 800
         THEN Result("Powerplay Expert", 80)
    ELSE Result("All-Phase Bowler", 70 + (a.n - MinSamples))

ClassifyBowler(a) ==
    IF a.n < MinSamples THEN InsufficientData
    ELSE IF a.economy < 900 /\ a.wpm >= 80
         THEN Result("Death Specialist", 85)
    ELSE IF a.wpm >= 130 THEN Result("Wicket Taker", 88)
    ELSE IF a.economy < 750 /\ a.dot_pct > 4500
         THEN Result("Economy Bowler", 82)
    ELSE IF a.wpm >= 100 /\ a.economy < 800
         THEN Result("Powerplay Expert", 80)
    ELSE Result("All-Phase Bowler", 70)

Aggregates(n, avg_runs, avg_sr, boundaries, position, fifty_rate, economy, wpm, dot_pct) ==
    [n |-> n, avg_runs |-> avg_runs, avg_sr |-> avg_sr,
     boundaries |-> boundaries, position |-> position,
     fifty_rate |-> fifty_rate, economy |-> economy, wpm |-> wpm,
     dot_pct |-> dot_pct]

SampleCounts == (MinSamples - 1)..MaxSamples

BatsmanInputs ==
    {Aggregates(n, r, sr, b, p, f, 0, 0, 0) :
        n \in SampleCounts,
        r \in {2000, 2001, 2500, 2501, 3000, 3001},
        sr \in {11499, 11500, 11999, 12000, 13000, 13001, 13500, 13501,
                14000, 14001, 14500, 14501},
        b \in {700, 701},
        p \in {200, 201, 299, 300, 500, 501},
        f \in {2000, 2001}}

BowlerInputs ==
    {Aggregates(n, 0, 0, 0, 0, 0, e, w, dp) :
        n \in SampleCounts,
        e \in {749, 750, 799, 800, 820, 899, 900, 950},
        w \in {79, 80, 99, 100, 129, 130, 140},
        dp \in {4500, 4501}}

\* records whose innings are long enough for the pressure queries: the
\* venue is named without "final", with "final" in mixed case, or with a
\* part of the word only; the date differs with the venue, so two records
\* of one venue are one fixture
VenueFinal == <<"W", "F", "i", "N", "a", "L">>
VenueFina == <<"f", "i", "n", "a">>
Date3 == <<"d", "3">>

DelSingle == Delivery("X", "P", 1, 1, <<>>, "none")
DelSix == Delivery("X", "P", 6, 6, <<>>, "none")
DelDot == Delivery("Y", "P", 0, 0, <<>>, "none")

PipelineVenues == {VenueV, VenueFinal, VenueFina}

PipelineInfo(venue) ==
    Info(TxtIPL, Season2020,
         <<IF venue = VenueV THEN Date1
           ELSE IF venue = VenueFinal THEN Date2 ELSE Date3>>,
         <<TeamA, TeamB>>, venue, TRUE)

\* innings of player X: fours only, sixes only, singles then fours, and a
\* short one in which Y faces a ball without scoring
PipelineInnings ==
    {[i \in 1..MaxInningsBalls |-> DelFour],
     [i \in 1..MaxInningsBalls |-> DelSix],
     [i \in 1..MaxInningsBalls |->
         IF 2 * i <= MaxInningsBalls THEN DelSingle ELSE DelFour],
     <<DelFour, DelDot>>}

PipelineRecords ==
    {Rec(PipelineInfo(v), <<Inning(TeamA, ds)>>) :
        v \in PipelineVenues, ds \in PipelineInnings}

(***************************************************************************)
(* The ingestion script as a state machine.                                *)
(***************************************************************************)
Counts(store, p, s, d) ==
    [matches |-> Len(store.matches), batting |-> Len(store.batting),
     bowling |-> Len(store.bowling), processed |-> p, skipped |-> s,
     duplicates |-> d]

NoInput == Aggregates(0, 0, 0, 0, 0, 0, 0, 0, 0)
NoResult == Result("", 0)

Init ==
    /\ db = EmptyStore
    /\ txn = EmptyStore
    /\ pc = "idle"
    /\ run = 0
    /\ idx = 0
    /\ processed = 0
    /\ skipped = 0
    /\ duplicates = 0
    /\ processed_matches = {}
    /\ log = <<>>
    /\ cin = NoInput
    /\ cout = NoResult

\* a run of the script starts: counters, processed_matches, the connection
StartRun ==
    /\ pc = "idle"
    /\ run < MaxRuns
    /\ pc' = "loop"
    /\ run' = run + 1
    /\ idx' = 0
    /\ processed' = 0
    /\ skipped' = 0
    /\ duplicates' = 0
    /\ processed_matches' = {}
    /\ txn' = db
    /\ UNCHANGED <<db, log, classVars>>

\* one iteration of `for json_file in filtered_files[:target]` on a record
\* of the set files, at most max records being examined in all
Iterate(files, max) ==
    /\ pc = "loop"
    /\ Len(log) < max
    /\ \E rec \in files :
        LET o == LoopBody(rec, [txn |-> txn, pm |-> processed_matches,
                                processed |-> processed, skipped |-> skipped,
                                duplicates |-> duplicates])
            escapes == o.exc # "none" /\ ~Caught(o.exc)
        IN  /\ idx' = idx + 1
            /\ processed' = o.processed
            /\ skipped' = o.skipped
            /\ duplicates' = o.duplicates
            /\ processed_matches' = o.pm
            /\ txn' = IF escapes THEN db ELSE o.txn
            /\ db' = IF o.commit THEN o.txn ELSE db
            /\ pc' = IF escapes THEN "crashed" ELSE "loop"
            /\ log' = Append(log,
                   [run |-> run, rec |-> rec, exc |-> o.exc,
                    before |-> Counts(txn, processed, skipped, duplicates),
                    after |-> Counts(o.txn, o.processed, o.skipped,
                                     o.duplicates)])
    /\ UNCHANGED <<run, classVars>>

ProcessRecord == Iterate(Records, MaxExamined)

ProcessFactRecord == Iterate(FactRecords, MaxFactRecords)

ProcessGateRecord == Iterate(GateRecords, MaxGateRecords)

\* the file list is exhausted: the with-block exits, commit and close
EndRun ==
    /\ pc = "loop"
    /\ pc' = "idle"
    /\ db' = txn
    /\ UNCHANGED <<txn, run, idx, processed, skipped, duplicates,
                   processed_matches, log, classVars>>

Next == StartRun \/ ProcessRecord \/ EndRun

Spec == Init /\ [][Next]_vars

\* the same script over the records FactRecords
NextFacts == StartRun \/ ProcessFactRecord \/ EndRun

SpecFacts == Init /\ [][NextFacts]_vars

\* a long file list: valid records of distinct fixtures (one date each),
\* every skipEvery-th record being of another competition; the lists stay
\* below the cap of 1000 files
BatchInfo(k) ==
    Info(TxtIPL, Season2020, <<<<"d">> \o StrOf(k)>>, <<TeamA, TeamB>>, VenueV, TRUE)

BatchFiles(len, skipEvery) ==
    [k \in 1..len |->
        IF skipEvery > 0 /\ k % skipEvery = 0
        THEN Rec(InfoOtherEvent, SimpleInnings)
        ELSE Rec(BatchInfo(k), SimpleInnings)]

BatchFileLists ==
    {BatchFiles(len, skipEvery) :
        len \in {MaxBatchFiles - 40, MaxBatchFiles}, skipEvery \in {0, 3, 7}}

\* the script run on one file list, held in cin, file after file
InitBatch ==
    /\ db = EmptyStore
    /\ txn = EmptyStore
    /\ pc = "idle"
    /\ run = 0
    /\ idx = 0
    /\ processed = 0
    /\ skipped = 0
    /\ duplicates = 0
    /\ processed_matches = {}
    /\ log = <<>>
    /\ cin \in BatchFileLists
    /\ cout = NoResult

ProcessNextFile ==
    /\ pc = "loop"
    /\ idx < Len(cin)
    /\ LET o == LoopBody(cin[idx + 1],
                         [txn |-> txn, pm |-> processed_matches,
                          processed |-> processed, skipped |-> skipped,
                          duplicates |-> duplicates])
           escapes == o.exc # "none" /\ ~Caught(o.exc)
       IN  /\ idx' = idx + 1
           /\ processed' = o.processed
           /\ skipped' = o.skipped
           /\ duplicates' = o.duplicates
           /\ processed_matches' = o.pm
           /\ txn' = IF escapes THEN db ELSE o.txn
           /\ db' = IF o.commit THEN o.txn ELSE db
           /\ pc' = IF escapes THEN "crashed" ELSE "loop"
    /\ UNCHANGED <<run, log, classVars>>

\* the last file is done: the with-block exits, commit and close
EndBatchRun ==
    /\ pc = "loop"
    /\ idx = Len(cin)
    /\ pc' = "idle"
    /\ db' = txn
    /\ UNCHANGED <<txn, run, idx, processed, skipped, duplicates,
                   processed_matches, log, classVars>>

NextBatch == StartRun \/ ProcessNextFile \/ EndBatchRun

SpecBatch == InitBatch /\ [][NextBatch]_vars

\* the ingestion script run on the records of GateRecords
NextGates == StartRun \/ ProcessGateRecord \/ EndRun

SpecGates == Init /\ [][NextGates]_vars

(***************************************************************************)
(* The classifier applied to the aggregates of one player.                 *)
(***************************************************************************)
InitClassify ==
    /\ db = EmptyStore
    /\ txn = EmptyStore
    /\ run = 0
    /\ idx = 0
    /\ processed = 0
    /\ skipped = 0
    /\ duplicates = 0
    /\ processed_matches = {}
    /\ log = <<>>
    /\ cout = NoResult
    /\ \/ pc = "batsman" /\ cin \in BatsmanInputs
       \/ pc = "bowler" /\ cin \in BowlerInputs

CallClassifyBatsman ==
    /\ pc = "batsman"
    /\ cout' = ClassifyBatsman(cin)
    /\ pc' = "batsman_done"
    /\ UNCHANGED <<db, txn, run, idx, processed, skipped, duplicates,
                   processed_matches, log, cin>>

CallClassifyBowler ==
    /\ pc = "bowler"
    /\ cout' = ClassifyBowler(cin)
    /\ pc' = "bowler_done"
    /\ UNCHANGED <<db, txn, run, idx, processed, skipped, duplicates,
                   processed_matches, log, cin>>

NextClassify == CallClassifyBatsman \/ CallClassifyBowler

SpecClassify == InitClassify /\ [][NextClassify]_vars

\* the same call made again on the same aggregates; log keeps the results
\* of the earlier calls
Repeat(at, result) ==
    /\ pc = at
    /\ Len(log) < MaxRepeats
    /\ log' = Append(log, cout)
    /\ cout' = result
    /\ UNCHANGED <<db, txn, pc, run, idx, processed, skipped, duplicates,
                   processed_matches, cin>>

RepeatClassifyBatsman == Repeat("batsman_done", ClassifyBatsman(cin))

RepeatClassifyBowler == Repeat("bowler_done", ClassifyBowler(cin))

NextRepeat ==
    \/ CallClassifyBatsman
    \/ CallClassifyBowler
    \/ RepeatClassifyBatsman
    \/ RepeatClassifyBowler

SpecRepeat == InitClassify /\ [][NextRepeat]_vars

(***************************************************************************)
(* IPLDatabase.get_connection around a body.  The body writes rows, may    *)
(* call conn.commit() itself (as the ingestion loop does), and ends by     *)
(* returning or by raising.  idx counts the operations of the body, log    *)
(* keeps them, cout is what the context manager did on exit.  A written    *)
(* row names the use and the operation that wrote it.                      *)
(***************************************************************************)
BodyExceptions == {"Exception", "KeyboardInterrupt"}

\* except Exception: the classes the except clause catches
IsException(exc) == exc = "Exception"

Exit(exc, commit, rollback, close) ==
    [exc |-> exc, commit |-> commit, rollback |-> rollback, close |-> close]

BodyOp(use, seq, op) == [use |-> use, seq |-> seq, op |-> op]

WrittenRow(match_id, use, seq) ==
    [match_id |-> match_id, use |-> use, seq |-> seq]

\* the pending writes kept on an exit that raised
Discarded_Kept(committed, working) == working

\* conn.rollback(), or conn.close() with a transaction open: the store is
\* what was committed
Discarded(committed, working) == committed

\* conn = sqlite3.connect(...); yield conn
Acquire ==
    /\ pc = "idle"
    /\ run < MaxRuns
    /\ pc' = "body"
    /\ run' = run + 1
    /\ idx' = 0
    /\ txn' = db
    /\ UNCHANGED <<db, processed, skipped, duplicates, processed_matches,
                   log, classVars>>

\* cursor.execute("INSERT ...") in the body
BodyWrite ==
    /\ pc = "body"
    /\ idx < MaxBodyOps
    /\ idx' = idx + 1
    /\ txn' = [txn EXCEPT !.matches =
                   Append(@, WrittenRow(Len(@) + 1, run, idx + 1))]
    /\ log' = Append(log, BodyOp(run, idx + 1, "write"))
    /\ UNCHANGED <<db, pc, run, processed, skipped, duplicates,
                   processed_matches, classVars>>

\* conn.commit() in the body, with writes pending
BodyCommit ==
    /\ pc = "body"
    /\ idx < MaxBodyOps
    /\ txn # db
    /\ idx' = idx + 1
    /\ db' = txn
    /\ log' = Append(log, BodyOp(run, idx + 1, "commit"))
    /\ UNCHANGED <<txn, pc, run, processed, skipped, duplicates,
                   processed_matches, classVars>>

\* the body returns: conn.commit(), then finally: conn.close()
ExitNormally ==
    /\ pc = "body"
    /\ pc' = "idle"
    /\ db' = txn
    /\ cout' = Exit("none", TRUE, FALSE, TRUE)
    /\ UNCHANGED <<txn, run, idx, processed, skipped, duplicates,
                   processed_matches, log, cin>>

\* the body raises: an Exception is caught, rolled back and raised again;
\* any other exception passes the except clause; finally: conn.close()
ExitRaising ==
    /\ pc = "body"
    /\ \E exc \in BodyExceptions :
        /\ pc' = "idle"
        /\ db' = Discarded(db, txn)
        /\ txn' = Discarded(db, txn)
        /\ cout' = Exit(exc, FALSE, IsException(exc), TRUE)
    /\ UNCHANGED <<run, idx, processed, skipped, duplicates,
                   processed_matches, log, cin>>

NextConn == Acquire \/ BodyWrite \/ BodyCommit \/ ExitNormally \/ ExitRaising

SpecConn == Init /\ [][NextConn]_vars

(***************************************************************************)
(* Analytics over a store.  The tables hold the columns the queries read;  *)
(* match_date is a day number; overs are in tenths and economy in          *)
(* hundredths, as the ingestion stores them; every returned real is in     *)
(* hundredths.                                                             *)
(***************************************************************************)
Max(a, b) == IF a > b THEN a ELSE b

Min(a, b) == IF a < b THEN a ELSE b

\* ORDER BY id DESC LIMIT limit, of the rows kept by the WHERE clause
LatestById(kept, limit) ==
    [i \in 1..Min(Len(kept), limit) |-> kept[Len(kept) + 1 - i]]

RecentLimit == 20
MinRecentBalls == 5
MinOversTenths == 20
MinRecent == 10

\* the rows the query of consistency_index returns
RecentSample(store, player_name, role) ==
    LET BatWhere(r) == r.player_name = player_name /\ r.balls >= MinRecentBalls
        BowlWhere(r) == r.player_name = player_name /\ r.overs >= MinOversTenths
    IN  IF role = "batting"
        THEN LatestById(SelectSeq(store.batting, BatWhere), RecentLimit)
        ELSE LatestById(SelectSeq(store.bowling, BowlWhere), RecentLimit)

SampleValues(df, role) ==
    IF role = "batting" THEN [i \in 1..Len(df) |-> df[i].runs]
    ELSE [i \in 1..Len(df) |-> df[i].economy]

\* x * x <= m * 10^8, computed in pieces that fit 32 bits
SqLeq(x, m) ==
    LET a == x \div 10000
        b == x % 10000
    IN  IF a > 46340 THEN FALSE
        ELSE IF a * a > m THEN FALSE
        ELSE IF a * a = m THEN b = 0
        ELSE IF (a + 1) * (a + 1) <= m THEN TRUE
        ELSE LET p == 2 * a * b
                 w == (p % 10000) * 10000 + b * b
                 h == a * a + p \div 10000 + w \div 100000000
             IN  h < m \/ (h = m /\ w % 100000000 = 0)

\* std / mean of the sample as hundredths of a percent, rounded to the
\* nearest: with s the sum, q the sum of squares and n the size,
\* std / mean = sqrt(n * q - s * s) / s; the result is the greatest c with
\* c - 1/2 <= 10^4 * std / mean, found by bisection
RECURSIVE CvSearch(_, _, _, _)
CvSearch(lo, hi, s, d) ==
    IF lo = hi THEN lo
    ELSE LET mid == (lo + hi + 1) \div 2
         IN  IF SqLeq((2 * mid - 1) * s, 4 * d)
             THEN CvSearch(mid, hi, s, d)
             ELSE CvSearch(lo, mid - 1, s, d)

\* np.std is at most sqrt(n - 1) times the mean for non-negative values,
\* which bounds cv below 4.6 for a sample of at most RecentLimit values
CvHundredths(values) ==
    LET n == Len(values)
        s == SumSeq(values)
        q == SumSeq([i \in 1..n |-> values[i] * values[i]])
    IN  CvSearch(0, 46000, s, n * q - s * s)

\* max(0, 100 - cv * 100) without the max
Floor0_Absent(x) == x

Floor0(x) == Max(0, x)

ConsistencyIndex(store, player_name, role) ==
    LET df == RecentSample(store, player_name, role)
        values == SampleValues(df, role)
    IN  IF Len(df) < MinRecent THEN 0
        ELSE IF SumSeq(values) > 0
             THEN Floor0(10000 - CvHundredths(values))
             ELSE 0

MinInningsBalls == 10

\* every innings of the player counted, whatever its balls
BatsmanInnings_AnyBalls(store, player_name) ==
    LET Where(r) == r.player_name = player_name
    IN  Len(SelectSeq(store.batting, Where))

\* COUNT(*) of the query of classify_batsman
BatsmanInnings(store, player_name) ==
    LET Where(r) == r.player_name = player_name /\ r.balls >= MinInningsBalls
    IN  Len(SelectSeq(store.batting, Where))

\* COUNT(DISTINCT match_id) of the query of classify_bowler
BowlerMatches(store, player_name) ==
    Cardinality({store.bowling[i].match_id :
                    i \in {j \in 1..Len(store.bowling) :
                              /\ store.bowling[j].player_name = player_name
                              /\ store.bowling[j].overs >= MinOversTenths}})

\* classify_batsman / classify_bowler on a store: the sample count comes
\* from the store, the averages are those of rest
ClassifyBatsmanOn(store, player_name, rest) ==
    ClassifyBatsman([rest EXCEPT !.n = BatsmanInnings(store, player_name)])

ClassifyBowlerOn(store, player_name, rest) ==
    ClassifyBowler([rest EXCEPT !.n = BowlerMatches(store, player_name)])

(***************************************************************************)
(* get_impact_score                                                        *)
(***************************************************************************)
BattingImpact(runs) ==
    IF runs >= 50 THEN 100
    ELSE IF runs >= 30 THEN 70
    ELSE IF runs >= 20 THEN 50
    ELSE runs * 2

BowlingImpact(wickets) ==
    IF wickets >= 3 THEN 100
    ELSE IF wickets >= 2 THEN 70
    ELSE IF wickets >= 1 THEN 50
    ELSE 20

\* JOIN matches m ON b.match_id = m.match_id
\* WHERE b.player_name = ? AND m.winner = b.team
WonFacts(store, table, player_name) ==
    LET Where(r) ==
            /\ r.player_name = player_name
            /\ \E x \in 1..Len(store.matches) :
                  /\ store.matches[x].match_id = r.match_id
                  /\ store.matches[x].winner # NoneTxt
                  /\ store.matches[x].winner = r.team
    IN  SelectSeq(table, Where)

\* nb, nw: the number of rows under each AVG (0: the AVG is NULL and the
\* score stays 0.0); sb, sw: the sums of their impact points
BothScores(nb, sb, nw, sw) == (nb > 0 /\ sb > 0) /\ (nw > 0 /\ sw > 0)

GetImpactScore(store, player_name) ==
    LET bat == WonFacts(store, store.batting, player_name)
        bowl == WonFacts(store, store.bowling, player_name)
        nb == Len(bat)
        nw == Len(bowl)
        sb == SumSeq([i \in 1..nb |-> BattingImpact(bat[i].runs)])
        sw == SumSeq([i \in 1..nw |-> BowlingImpact(bowl[i].wickets)])
    IN  IF BothScores(nb, sb, nw, sw)
        THEN RoundDiv(100 * (sb * nw + sw * nb), 2 * nb * nw)
        ELSE IF nb > 0 /\ sb > 0 THEN RoundDiv(100 * sb, nb)
        ELSE IF nw > 0 /\ sw > 0 THEN RoundDiv(100 * sw, nw)
        ELSE 0

(***************************************************************************)
(* Team analyzer.  Null is the NULL an aggregate gives over no rows;       *)
(* int() and round() of it raise.                                          *)
(***************************************************************************)
Null == [isNull |-> TRUE, value |-> 0]

NotNull(value) == [isNull |-> FALSE, value |-> value]

\* the exceptions of int(None) and of int(float('nan'))
NullErrors == {"TypeError", "ValueError"}

\* SUM(CASE WHEN ... THEN 1 ELSE 0 END) over rows, hits being the rows of
\* the WHEN
SumCase(rows, hits) == IF rows = <<>> THEN Null ELSE NotNull(Len(hits))

RECURSIVE MaxSeq(_)
MaxSeq(s) == IF Len(s) = 1 THEN Head(s) ELSE Max(Head(s), MaxSeq(Tail(s)))

\* SELECT match_id, SUM(runs) ... WHERE team = ? GROUP BY match_id
TeamTotals(store, team_name) ==
    LET mine == {i \in 1..Len(store.batting) : store.batting[i].team = team_name}
        ids == {store.batting[i].match_id : i \in mine}
        RECURSIVE Totals(_)
        Totals(left) ==
            IF left = {} THEN <<>>
            ELSE LET m == CHOOSE x \in left : \A y \in left : x <= y
                     rows == {i \in mine : store.batting[i].match_id = m}
                     Runs(i) == store.batting[i].runs
                     RECURSIVE Sum(_)
                     Sum(is) == IF is = {} THEN 0
                                ELSE LET i == CHOOSE j \in is : TRUE
                                     IN  Runs(i) + Sum(is \ {i})
                 IN  <<Sum(rows)>> \o Totals(left \ {m})
    IN  Totals(ids)

ProfileValue(matches, wins, losses, win_percentage, avg_score, highest_score) ==
    [matches |-> matches, wins |-> wins, losses |-> losses,
     win_percentage |-> win_percentage, avg_score |-> avg_score,
     highest_score |-> highest_score]

Raised(exc) == [exc |-> exc, value |-> <<>>]

Returned(value) == [exc |-> "none", value |-> value]

\* get_team_profile(team_name) with no season; exc is the exception of a
\* failing conversion
GetTeamProfile(store, team_name, exc) ==
    LET Mine(r) == r.team1 = team_name \/ r.team2 = team_name
        Won(r) == r.winner = team_name
        Unwon(r) == r.winner = NoneTxt
        rows == SelectSeq(store.matches, Mine)
        matches == Len(rows)
        wins == SumCase(rows, SelectSeq(rows, Won))
        no_results == SumCase(rows, SelectSeq(rows, Unwon))
        totals == TeamTotals(store, team_name)
    IN  IF wins.isNull \/ no_results.isNull THEN Raised(exc)
        ELSE IF totals = <<>> THEN Raised(exc)
        ELSE Returned(ProfileValue(
                 matches, wins.value, matches - wins.value - no_results.value,
                 IF matches > 0 THEN RoundDiv(wins.value * 10000, matches)
                 ELSE 0,
                 RoundDiv(100 * SumSeq(totals), Len(totals)),
                 MaxSeq(totals)))

TossValue(toss_wins, matches_won_after_toss, win_rate_after_toss) ==
    [toss_wins |-> toss_wins,
     matches_won_after_toss |-> matches_won_after_toss,
     win_rate_after_toss |-> win_rate_after_toss]

TossImpact(store, team_name, exc) ==
    LET Mine(r) == r.toss_winner = team_name
        Won(r) == r.winner = team_name
        rows == SelectSeq(store.matches, Mine)
        toss_wins == Len(rows)
        match_wins == SumCase(rows, SelectSeq(rows, Won))
    IN  IF match_wins.isNull THEN Raised(exc)
        ELSE Returned(TossValue(
                 toss_wins, match_wins.value,
                 IF toss_wins > 0
                 THEN RoundDiv(match_wins.value * 10000, toss_wins)
                 ELSE 0))

(***************************************************************************)
(* PlayerMetrics.pressure_performance_rating and strike_rotation_ability.  *)
(* Averages and the rating are returned in hundredths.                     *)
(***************************************************************************)
MinPressureBalls == 10

CloseMargin == 20

PlayoffTypes == {"Qualifier", "Eliminator", "Final"}

RunsOf(rows) == SumSeq([i \in 1..Len(rows) |-> rows[i].runs])

\* FROM batting_stats b JOIN matches m ON b.match_id = m.match_id
\* WHERE b.player_name = ? AND <the condition on m> AND b.balls >= 10;
\* kept is the set of match_ids of the matches that meet the condition
JoinedInnings(store, player_name, kept) ==
    LET Test(b) == /\ b.player_name = player_name
                   /\ b.match_id \in kept
                   /\ b.balls >= MinPressureBalls
    IN  SelectSeq(store.batting, Test)

CloseMatches(store) ==
    {store.matches[i].match_id : i \in
        {j \in 1..Len(store.matches) :
            store.matches[j].result_margin <= CloseMargin}}

PlayoffMatches(store) ==
    {store.matches[i].match_id : i \in
        {j \in 1..Len(store.matches) :
            store.matches[j].match_type \in PlayoffTypes}}

OverallInnings(store, player_name) ==
    LET Test(b) == b.player_name = player_name /\ b.balls >= MinPressureBalls
    IN  SelectSeq(store.batting, Test)

\* the overall average is kept as it is, zero included
OverallOrOne_ZeroKept(rows) ==
    IF rows = <<>> THEN [num |-> 1, den |-> 1]
    ELSE [num |-> RunsOf(rows), den |-> Len(rows)]

\* overall_avg = avg if pd.notna(avg) else 1; if overall_avg == 0: overall_avg = 1
OverallOrOne(rows) ==
    IF rows = <<>> \/ RunsOf(rows) = 0 THEN [num |-> 1, den |-> 1]
    ELSE [num |-> RunsOf(rows), den |-> Len(rows)]

\* close_ratio + playoff_ratio over the common denominator
\* overall.num * nc * np, each ratio being 0 unless its average is > 0
RatioSum(close, playoff, overall) ==
    LET nc == Max(Len(close), 1)
        np == Max(Len(playoff), 1)
        c == IF RunsOf(close) > 0 THEN RunsOf(close) * np ELSE 0
        p == IF RunsOf(playoff) > 0 THEN RunsOf(playoff) * nc ELSE 0
    IN  [num |-> overall.den * (c + p), den |-> overall.num * nc * np]

PressureResult(rating, close_match_avg, playoff_avg, overall_avg, better) ==
    [rating |-> rating, close_match_avg |-> close_match_avg,
     playoff_avg |-> playoff_avg, overall_avg |-> overall_avg,
     performs_better_under_pressure |-> better]

PressurePerformanceRating(store, player_name) ==
    LET close == JoinedInnings(store, player_name, CloseMatches(store))
        playoff == JoinedInnings(store, player_name, PlayoffMatches(store))
        overall == OverallOrOne(OverallInnings(store, player_name))
        sum == RatioSum(close, playoff, overall)
    IN  PressureResult(
            IF sum.num = 0 THEN 0 ELSE RoundDiv(sum.num * 10000, 2 * sum.den),
            IF close = <<>> THEN 0
            ELSE RoundDiv(RunsOf(close) * 100, Len(close)),
            IF playoff = <<>> THEN 0
            ELSE RoundDiv(RunsOf(playoff) * 100, Len(playoff)),
            RoundDiv(overall.num * 100, overall.den),
            sum.num * 100 > 2 * sum.den * 100)

\* the boundary runs with the two weights exchanged
BoundaryRuns_Exchanged(fours, sixes) == fours * 6 + sixes * 4

\* boundary_runs = (fours * 4) + (sixes * 6)
BoundaryRuns(fours, sixes) == fours * 4 + sixes * 6

\* SUM(runs), SUM(fours), SUM(sixes) WHERE player_name = ?: NULL without rows
StrikeRotationAbility(store, player_name) ==
    LET Test(b) == b.player_name = player_name
        rows == SelectSeq(store.batting, Test)
        total_runs == RunsOf(rows)
        boundary_runs ==
            BoundaryRuns(SumSeq([i \in 1..Len(rows) |-> rows[i].fours]),
                         SumSeq([i \in 1..Len(rows) |-> rows[i].sixes]))
    IN  IF rows # <<>> /\ total_runs > 0
        THEN RoundDiv((total_runs - boundary_runs) * 10000, total_runs)
        ELSE 0

(***************************************************************************)
(* Stores for the analytics calls.                                         *)
(***************************************************************************)
StoredMatch(match_id, match_date, winner, toss_winner) ==
    [match_id |-> match_id, match_date |-> match_date, team1 |-> TeamA,
     team2 |-> TeamB, winner |-> winner, toss_winner |-> toss_winner]

StoredBatting(id, match_id, player_name, team, balls, runs) ==
    [id |-> id, match_id |-> match_id, player_name |-> player_name,
     team |-> team, balls |-> balls, runs |-> runs]

StoredBowling(id, match_id, player_name, team, overs, economy, wickets) ==
    [id |-> id, match_id |-> match_id, player_name |-> player_name,
     team |-> team, overs |-> overs, economy |-> economy, wickets |-> wickets]

\* a store of n matches with one batting and one bowling fact per row i.
\* order: the matches were ingested oldest first ("asc") or newest first
\* ("desc").  shape: every fact is of player X and qualifies ("plain");
\* every 4th fact is short, 3 balls and 1 over ("short"), or of 7 balls
\* ("medium"); every 3rd fact is of another player ("other"); two facts per
\* match ("pair").  vals: the runs of the facts, the economy being half the
\* runs.
StatOrders == {"asc", "desc"}
StatShapes == {"plain", "short", "medium", "other", "pair"}
StatVals == {"flat", "near", "alt", "spike", "zero"}

StatRuns(i, n, vals) ==
    IF vals = "flat" THEN 10
    ELSE IF vals = "near" THEN 10 + (i % 2)
    ELSE IF vals = "alt" THEN 20 * (i % 2)
    ELSE IF vals = "spike" THEN (IF i = n THEN 14 ELSE 0)
    ELSE 0

StatStore(n, order, shape, vals) ==
    LET MatchOf(i) == IF shape = "pair" THEN (i + 1) \div 2 ELSE i
        Who(i) == IF shape = "other" /\ i % 3 = 0 THEN "Z" ELSE "X"
        Balls(i) == IF shape = "short" /\ i % 4 = 0 THEN 3
                    ELSE IF shape = "medium" /\ i % 4 = 0 THEN 7
                    ELSE 12
        Overs(i) == IF shape = "short" /\ i % 4 = 0 THEN 10 ELSE 40
    IN  [matches |->
             [m \in 1..n |->
                 StoredMatch(m, IF order = "asc" THEN m ELSE n + 1 - m,
                             TeamA, TeamA)],
         batting |->
             [i \in 1..n |->
                 StoredBatting(i, MatchOf(i), Who(i), TeamA, Balls(i),
                               StatRuns(i, n, vals))],
         bowling |->
             [i \in 1..n |->
                 StoredBowling(i, MatchOf(i), Who(i), TeamA, Overs(i),
                               50 * StatRuns(i, n, vals), 1)]]

StatStores ==
    {StatStore(n, o, sh, v) :
        n \in 0..MaxFacts, o \in StatOrders, sh \in StatShapes, v \in StatVals}

ClassifyStores ==
    {StatStore(n, "asc", sh, "flat") : n \in 0..MaxFacts, sh \in StatShapes}

SomeBatsmanAverages == Aggregates(0, 2500, 14500, 701, 300, 2001, 0, 0, 0)

SomeBowlerAverages == Aggregates(0, 0, 0, 0, 0, 0, 820, 140, 4501)

\* stores for get_impact_score: every fact of player X in a match of its
\* own that the player's team A won or lost
ImpactRuns == {0, 10, 60}
ImpactWickets == {0, 3}

SeqsUpTo(S, n) == UNION {[1..k -> S] : k \in 0..n}

ImpactStore(bs, ws) ==
    [matches |->
         [m \in 1..(Len(bs) + Len(ws)) |->
             LET won == IF m <= Len(bs) THEN bs[m].won ELSE ws[m - Len(bs)].won
             IN  StoredMatch(m, m, IF won THEN TeamA ELSE TeamB, TeamA)],
     batting |->
         [i \in 1..Len(bs) |-> StoredBatting(i, i, "X", TeamA, 12, bs[i].runs)],
     bowling |->
         [i \in 1..Len(ws) |->
             StoredBowling(i, Len(bs) + i, "X", TeamA, 40, 800, ws[i].wickets)]]

ImpactStores ==
    {ImpactStore(bs, ws) :
        bs \in SeqsUpTo([runs : ImpactRuns, won : BOOLEAN], MaxImpactFacts),
        ws \in SeqsUpTo([wickets : ImpactWickets, won : BOOLEAN], MaxImpactFacts)}

\* stores for the team analyzer: up to MaxTeamMatches matches, each won by
\* A, by B or by nobody, with the toss won by A or B; the batting facts of
\* team A: none, one per match, or two per match
TeamMatchKinds == [winner : {TeamA, TeamB, NoneTxt}, toss_winner : {TeamA, TeamB}]
TeamFactShapes == {0, 1, 2}

TeamStore(ms, per, team1) ==
    [matches |->
         [m \in 1..Len(ms) |->
             [StoredMatch(m, m, ms[m].winner, ms[m].toss_winner)
                 EXCEPT !.team1 = team1]],
     batting |->
         [i \in 1..(per * Len(ms)) |->
             StoredBatting(i, (i + per - 1) \div per, "X", TeamA, 12, 10 * i)],
     bowling |-> <<>>]

TeamStores ==
    {TeamStore(ms, per, t) :
        ms \in SeqsUpTo(TeamMatchKinds, MaxTeamMatches),
        per \in TeamFactShapes, t \in {TeamA, TeamC}}

\* stores for pressure_performance_rating: every innings of player X in a
\* match of its own.  kind: "plain" - 12 balls in a league match won by 50;
\* "close" - the margin is 5; "playoff" - a Qualifier won by 50; "both" - a
\* Final won by 5; "short" - 5 balls in a Final won by 5
PressureRuns == {0, 30, 60}
PressureKinds == {"plain", "close", "playoff", "both", "short"}

PressureStore(bs) ==
    [matches |->
         [m \in 1..Len(bs) |->
             [match_id |-> m, match_date |-> m, team1 |-> TeamA,
              team2 |-> TeamB, winner |-> TeamA, toss_winner |-> TeamA,
              result_margin |->
                  IF bs[m].kind \in {"close", "both", "short"} THEN 5 ELSE 50,
              match_type |->
                  IF bs[m].kind = "playoff" THEN "Qualifier"
                  ELSE IF bs[m].kind \in {"both", "short"} THEN "Final"
                  ELSE "League"]],
     batting |->
         [i \in 1..Len(bs) |->
             StoredBatting(i, i, "X", TeamA,
                           IF bs[i].kind = "short" THEN 5 ELSE 12, bs[i].runs)],
     bowling |-> <<>>]

PressureStores ==
    {PressureStore(bs) :
        bs \in SeqsUpTo([runs : PressureRuns, kind : PressureKinds],
                        MaxPressureFacts)}

(***************************************************************************)
(* The analytics calls, each on one store.                                 *)
(***************************************************************************)
Call(store, name, role, rest) ==
    [store |-> store, name |-> name, role |-> role, rest |-> rest]

InitMetrics ==
    /\ db = EmptyStore
    /\ txn = EmptyStore
    /\ run = 0
    /\ idx = 0
    /\ processed = 0
    /\ skipped = 0
    /\ duplicates = 0
    /\ processed_matches = {}
    /\ log = <<>>
    /\ cout = NoResult
    /\ \/ /\ pc = "consistency"
          /\ cin \in {Call(st, "X", role, NoInput) :
                         st \in StatStores, role \in {"batting", "bowling"}}
       \/ /\ pc = "batsman_on"
          /\ cin \in {Call(st, "X", "batting", SomeBatsmanAverages) :
                         st \in ClassifyStores}
       \/ /\ pc = "bowler_on"
          /\ cin \in {Call(st, "X", "bowling", SomeBowlerAverages) :
                         st \in ClassifyStores}
       \/ /\ pc = "impact"
          /\ cin \in {Call(st, "X", "", NoInput) : st \in ImpactStores}
       \/ /\ pc \in {"profile", "toss"}
          /\ cin \in {Call(st, TeamA, "", NoInput) : st \in TeamStores}
       \/ /\ pc = "pressure"
          /\ cin \in {Call(st, "X", "", NoInput) : st \in PressureStores}

Finish(from, to, result) ==
    /\ pc = from
    /\ cout' = result
    /\ pc' = to
    /\ UNCHANGED <<db, txn, run, idx, processed, skipped, duplicates,
                   processed_matches, log, cin>>

CallConsistencyIndex ==
    Finish("consistency", "consistency_done",
           ConsistencyIndex(cin.store, cin.name, cin.role))

CallClassifyBatsmanOn ==
    Finish("batsman_on", "batsman_on_done",
           ClassifyBatsmanOn(cin.store, cin.name, cin.rest))

CallClassifyBowlerOn ==
    Finish("bowler_on", "bowler_on_done",
           ClassifyBowlerOn(cin.store, cin.name, cin.rest))

CallGetImpactScore ==
    Finish("impact", "impact_done", GetImpactScore(cin.store, cin.name))

CallGetTeamProfile ==
    \E exc \in NullErrors :
        Finish("profile", "profile_done",
               GetTeamProfile(cin.store, cin.name, exc))

CallTossImpact ==
    \E exc \in NullErrors :
        Finish("toss", "toss_done", TossImpact(cin.store, cin.name, exc))

CallPressurePerformanceRating ==
    Finish("pressure", "pressure_done",
           PressurePerformanceRating(cin.store, cin.name))

NextMetrics ==
    \/ CallConsistencyIndex
    \/ CallClassifyBatsmanOn
    \/ CallClassifyBowlerOn
    \/ CallGetImpactScore
    \/ CallGetTeamProfile
    \/ CallTossImpact
    \/ CallPressurePerformanceRating

SpecMetrics == InitMetrics /\ [][NextMetrics]_vars

\* ingestion runs followed by a query of the analytics on the committed
\* store: the metrics open their own connection after the script has ended
ProcessPipelineRecord == Iterate(PipelineRecords, MaxPipelineRecords)

PipelinePlayers == {"X", "Y", "Z"}

Query(to, name, result) ==
    /\ pc = "idle"
    /\ pc' = to
    /\ cin' = [store |-> db, name |-> name]
    /\ cout' = result
    /\ UNCHANGED <<db, txn, run, idx, processed, skipped, duplicates,
                   processed_matches, log>>

QueryStrikeRotationAbility ==
    \E name \in PipelinePlayers :
        Query("rotation_done", name, [value |-> StrikeRotationAbility(db, name)])

QueryPressurePerformanceRating ==
    \E name \in PipelinePlayers :
        Query("pressure_done", name, PressurePerformanceRating(db, name))

NextPipeline ==
    \/ StartRun
    \/ ProcessPipelineRecord
    \/ EndRun
    \/ QueryStrikeRotationAbility
    \/ QueryPressurePerformanceRating

SpecPipeline == Init /\ [][NextPipeline]_vars

(***************************************************************************)
(* Properties.  log holds one entry per record examined: the record, the   *)
(* exception it raised, and the table sizes and counters before and after. *)
(***************************************************************************)
Entries == 1..Len(log)

Inserted(e) == e.after.matches = e.before.matches + 1

Processed(e) == e.after.processed = e.before.processed + 1

CountedDuplicate(e) == e.after.duplicates = e.before.duplicates + 1

AddedNoRows(e) ==
    /\ e.after.matches = e.before.matches
    /\ e.after.batting = e.before.batting
    /\ e.after.bowling = e.before.bowling

PassesEarlierGates(rec) == Gates(rec.info).st = "ok"

WellFormed(rec) ==
    /\ rec.info.toss.isDict
    /\ \A i \in 1..Len(rec.innings) :
         \A y \in 1..Len(rec.innings[i].deliveries) :
            /\ rec.innings[i].deliveries[y].fault = "none"
            /\ rec.innings[i].deliveries[y].batter # None
            /\ rec.innings[i].deliveries[y].bowler # None

HasBattingRow(store, m, i, player) ==
    \E x \in 1..Len(store.batting) :
        /\ store.batting[x].match_id = m
        /\ store.batting[x].innings_number = i
        /\ store.batting[x].player_name = player

HasBowlingRow(store, m, i, player) ==
    \E x \in 1..Len(store.bowling) :
        /\ store.bowling[x].match_id = m
        /\ store.bowling[x].innings_number = i
        /\ store.bowling[x].player_name = player

\* every delivery of the record has its batter's and its bowler's fact
FactsComplete(store, m, rec) ==
    \A i \in 1..Len(rec.innings) :
        \A y \in 1..Len(rec.innings[i].deliveries) :
            /\ HasBattingRow(store, m, i, rec.innings[i].deliveries[y].batter)
            /\ HasBowlingRow(store, m, i, rec.innings[i].deliveries[y].bowler)

RowsOfMatch(table, m) == {x \in 1..Len(table) : table[x].match_id = m}

\* C1: a record whose processing failed leaves no row in the committed
\* store, and every committed Match row has the complete facts of its record.
C1_NoPartialWrites ==
    \A k \in Entries :
        LET m == log[k].after.matches
        IN  /\ log[k].exc # "none" /\ Inserted(log[k]) =>
                /\ RowsOfMatch(db.matches, m) = {}
                /\ RowsOfMatch(db.batting, m) = {}
                /\ RowsOfMatch(db.bowling, m) = {}
            /\ Inserted(log[k]) /\ RowsOfMatch(db.matches, m) # {} =>
                FactsComplete(db, m, log[k].rec)

SameFixturePairs ==
    {p \in Entries \X Entries :
        /\ p[1] < p[2]
        /\ log[p[1]].run = log[p[2]].run
        /\ PassesEarlierGates(log[p[1]].rec)
        /\ PassesEarlierGates(log[p[2]].rec)
        /\ Fingerprint(log[p[1]].rec.info) = Fingerprint(log[p[2]].rec.info)}

\* C2 as stated: of two records of one run with the same fixture fingerprint
\* that pass the earlier gates, the first gets the one Match row and the
\* second is counted as a duplicate and adds no row.
C2_SecondIsDuplicate ==
    \A p \in SameFixturePairs :
        /\ Inserted(log[p[1]])
        /\ CountedDuplicate(log[p[2]])
        /\ AddedNoRows(log[p[2]])

\* C2 amended: when the first of the two records got its Match row inserted,
\* the second is counted as a duplicate and adds no row; in every case at
\* most one of the two inserts a Match row.
C2_SecondIsDuplicateAfterInsert ==
    \A p \in SameFixturePairs :
        /\ Inserted(log[p[1]]) =>
              /\ CountedDuplicate(log[p[2]])
              /\ AddedNoRows(log[p[2]])
              /\ ~Processed(log[p[2]])
        /\ ~(Inserted(log[p[1]]) /\ Inserted(log[p[2]]))

C2_Witness ==
    \E p \in SameFixturePairs :
        /\ Inserted(log[p[1]])
        /\ CountedDuplicate(log[p[2]])
        /\ pc = "idle"

FingerprintOfRow(r) == <<r.season, r.match_date, r.team1, r.team2, r.venue>>

\* C3: the committed matches table holds at most one row per fixture
\* fingerprint, however many times the ingestion has run.
C3_OneMatchPerFingerprint ==
    \A x, y \in 1..Len(db.matches) :
        x # y => FingerprintOfRow(db.matches[x]) # FingerprintOfRow(db.matches[y])

\* an earlier record of the same run took the identifier of entry k
IdentifierTaken(k) ==
    \E j \in 1..(k - 1) :
        /\ log[j].run = log[k].run
        /\ PassesEarlierGates(log[j].rec)
        /\ IdentifierOf(log[j].rec.info) = IdentifierOf(log[k].rec.info)
        /\ Inserted(log[j])

\* C4: an exception raised on one record never leaves the loop, and every
\* later well-formed record of the run that passes the gates is ingested.
C4_ErrorsDoNotHalt ==
    /\ pc # "crashed"
    /\ \A j, k \in Entries :
         /\ j < k
         /\ log[j].run = log[k].run
         /\ log[j].exc # "none"
         /\ PassesEarlierGates(log[k].rec)
         /\ WellFormed(log[k].rec)
         /\ ~IdentifierTaken(k)
         => /\ Inserted(log[k])
            /\ Processed(log[k])
            /\ FactsComplete(txn, log[k].after.matches, log[k].rec)

C4_Witness ==
    \E j, k \in Entries :
        /\ j < k
        /\ log[j].run = log[k].run
        /\ log[j].exc # "none"
        /\ Processed(log[k])

\* C5: when a run has ended, processed + skipped + duplicates equals the
\* number of records examined.
C5_CountersCoverExamined ==
    pc = "idle" /\ run > 0 => processed + skipped + duplicates = idx

BattingOf(m, i) ==
    LET Test(r) == r.match_id = m /\ r.innings_number = i
    IN  SelectSeq(txn.batting, Test)

BowlingOf(m, i) ==
    LET Test(r) == r.match_id = m /\ r.innings_number = i
    IN  SelectSeq(txn.bowling, Test)

Faced(ds, player) == {y \in 1..Len(ds) : ds[y].batter = player}

\* C6: for every ingested match and every innings, the runs of the innings'
\* BattingFacts sum to the runs.batter of its deliveries, and each fact's
\* balls, fours and sixes count that batter's deliveries, fours and sixes.
C6_BattingFactsMatchDeliveries ==
    \A k \in Entries :
        Processed(log[k]) =>
            \A i \in 1..Len(log[k].rec.innings) :
                LET ds == log[k].rec.innings[i].deliveries
                    rows == BattingOf(log[k].after.matches, i)
                IN  /\ SumSeq([x \in 1..Len(rows) |-> rows[x].runs])
                         = SumSeq([y \in 1..Len(ds) |-> ds[y].rb])
                    /\ \A x \in 1..Len(rows) :
                         LET mine == Faced(ds, rows[x].player_name)
                         IN  /\ rows[x].balls = Cardinality(mine)
                             /\ rows[x].fours =
                                  Cardinality({y \in mine : ds[y].rb = 4})
                             /\ rows[x].sixes =
                                  Cardinality({y \in mine : ds[y].rb = 6})

C6_Witness ==
    \E k \in Entries :
        /\ Processed(log[k])
        /\ \E i \in 1..Len(log[k].rec.innings) :
             LET ds == log[k].rec.innings[i].deliveries
             IN  /\ \E y \in 1..Len(ds) : ds[y].rb = 4
                 /\ \E y \in 1..Len(ds) : ds[y].rb = 6
                 /\ Len(BattingOf(log[k].after.matches, i)) = 2

FactKey(r) == <<r.match_id, r.player_name, r.innings_number>>

\* C7: no two BattingFacts and no two BowlingFacts share (match, player,
\* innings), and every batter and bowler of an ingested innings has a fact.
C7_OneFactPerPlayerInnings ==
    /\ \A x, y \in 1..Len(txn.batting) :
         x # y => FactKey(txn.batting[x]) # FactKey(txn.batting[y])
    /\ \A x, y \in 1..Len(txn.bowling) :
         x # y => FactKey(txn.bowling[x]) # FactKey(txn.bowling[y])
    /\ \A k \in Entries :
         Processed(log[k]) =>
            FactsComplete(txn, log[k].after.matches, log[k].rec)

C7_Witness ==
    \E k \in Entries :
        /\ Processed(log[k])
        /\ LET ds == log[k].rec.innings[1].deliveries
           IN  /\ Len(ds) = 2
               /\ ds[1].batter = ds[2].batter
               /\ Len(BattingOf(log[k].after.matches, 1)) = 1
        /\ Len(txn.matches) = 2

Rule(when, class, confidence) ==
    [when |-> when, class |-> class, confidence |-> confidence]

FirstMatching(rules) ==
    LET i == CHOOSE i \in 1..Len(rules) :
                 rules[i].when /\ \A j \in 1..(i - 1) : ~rules[j].when
    IN  Result(rules[i].class, rules[i].confidence)

BatsmanRules(a) ==
    <<Rule(a.avg_sr > 14500 /\ a.boundaries > 700, "Power Hitter", 85),
      Rule(a.position > 500 /\ a.avg_sr > 14000 /\ a.avg_runs > 2000,
           "Finisher", 82),
      Rule(a.position <= 200 /\ a.avg_sr > 14000, "Aggressive Opener", 88),
      Rule(12000 <= a.avg_sr /\ a.avg_sr <= 13500 /\ a.fifty_rate > 2000,
           "Anchor", 80),
      Rule(11500 <= a.avg_sr /\ a.avg_sr <= 13000 /\ a.avg_runs > 3000,
           "Accumulator", 75),
      Rule(300 <= a.position /\ a.position <= 500 /\ a.avg_runs > 2500,
           "Middle Order Stabilizer", 78),
      Rule(TRUE, "All-rounder Batsman", 65)>>

BowlerRules(a) ==
    <<Rule(a.economy < 900 /\ a.wpm >= 80, "Death Specialist", 85),
      Rule(a.wpm >= 130, "Wicket Taker", 88),
      Rule(a.economy < 750 /\ a.dot_pct > 4500, "Economy Bowler", 82),
      Rule(a.wpm >= 100 /\ a.economy < 800, "Powerplay Expert", 80),
      Rule(TRUE, "All-Phase Bowler", 70)>>

C9_BowlerFirstMatchingRule ==
    pc = "bowler_done" /\ cin.n >= 10 =>
        cout = FirstMatching(BowlerRules(cin))

C9_Witness ==
    /\ pc = "bowler_done"
    /\ cin.n >= 10
    /\ cin.wpm = 80
    /\ cin.economy = 899
    /\ cout.class = "Death Specialist"

\* C10 as stated: wickets per match >= 1.3 gives "Wicket Taker" whatever the
\* average economy.
C10_WicketTakerWhateverEconomy ==
    pc = "bowler_done" /\ cin.n >= 10 /\ cin.wpm >= 130 =>
        cout.class = "Wicket Taker"

\* C10 amended: wickets per match >= 1.3 gives "Wicket Taker" exactly when
\* the average economy is at least 9, and "Death Specialist" below 9.
C10_WicketTakerFromEconomyNine ==
    pc = "bowler_done" /\ cin.n >= 10 /\ cin.wpm >= 130 =>
        /\ cin.economy >= 900 => cout = Result("Wicket Taker", 88)
        /\ cin.economy < 900 => cout = Result("Death Specialist", 85)

C10_Witness ==
    /\ pc = "bowler_done"
    /\ cin.n >= 10
    /\ cin.wpm = 140
    /\ cin.economy = 820
    /\ cout.class = "Death Specialist"

(***************************************************************************)
(* Gates of the ingestion: team list, competition, season, innings.        *)
(***************************************************************************)
CountedSkipped(e) == e.after.skipped = e.before.skipped + 1

\* C15: a record whose team list does not have exactly two teams (none,
\* one, three or more) is counted as skipped and adds no row to any table.
C15_NotTwoTeamsSkipped ==
    \A k \in Entries :
        Len(log[k].rec.info.teams) # 2 =>
            CountedSkipped(log[k]) /\ AddedNoRows(log[k])

NamesTarget(event_name) ==
    Contains(event_name, TxtIPLLong) \/ Contains(event_name, TxtIPL)

\* the year of a season label: the part before the "/" of "YYYY/YY", or
\* the bare integer
LabelYear(season) ==
    IF season.isStr THEN IntOf(SplitFirst(season.text, "/")) ELSE season.num

InWindow(year) == YearFrom <= year /\ year <= YearTo

\* C16: a Match row is inserted only for a record whose competition label
\* names the target competition and whose season year is in 2016..2024, and
\* the row carries that year; a record failing either gate is counted as
\* skipped, not as a duplicate, and writes nothing, also when a record of the
\* same fixture was already processed in the run.
C16_CompetitionAndSeasonGates ==
    \A k \in Entries :
        LET e == log[k]
            info == e.rec.info
            passes == NamesTarget(info.event_name)
                          /\ InWindow(LabelYear(info.season))
        IN  /\ Inserted(e) =>
                /\ passes
                /\ txn.matches[e.after.matches].season = LabelYear(info.season)
            /\ ~passes =>
                /\ CountedSkipped(e)
                /\ e.after.duplicates = e.before.duplicates
                /\ e.after.processed = e.before.processed
                /\ AddedNoRows(e)
                /\ e.exc = "none"

C16_Witness ==
    /\ \E p \in Entries \X Entries :
          /\ p[1] < p[2]
          /\ log[p[1]].run = log[p[2]].run
          /\ Inserted(log[p[1]])
          /\ ~NamesTarget(log[p[2]].rec.info.event_name)
          /\ log[p[2]].rec.info.dates = log[p[1]].rec.info.dates
          /\ log[p[2]].rec.info.teams = log[p[1]].rec.info.teams
          /\ log[p[2]].rec.info.season = log[p[1]].rec.info.season
          /\ CountedSkipped(log[p[2]])
    /\ pc = "idle"

\* C17: every Match row has two different teams.
C17_TeamsDiffer ==
    \A x \in 1..Len(txn.matches) :
        txn.matches[x].team1 # txn.matches[x].team2

\* C18: every BattingFact and every BowlingFact has innings number 1 or 2.
C18_InningsOneOrTwo ==
    /\ \A x \in 1..Len(txn.batting) :
         txn.batting[x].innings_number \in {1, 2}
    /\ \A x \in 1..Len(txn.bowling) :
         txn.bowling[x].innings_number \in {1, 2}

Bowled(ds, player) == {y \in 1..Len(ds) : ds[y].bowler = player}

\* C20: every BattingFact has balls > 0 and every BowlingFact has overs > 0,
\* the overs being the bowler's deliveries of the innings divided by 6 and
\* rounded to one decimal (within 0.05 of the quotient), also for a bowler
\* with a single delivery.
C20_PositiveBallsAndOvers ==
    /\ \A x \in 1..Len(txn.batting) : txn.batting[x].balls > 0
    /\ \A x \in 1..Len(txn.bowling) : txn.bowling[x].overs > 0
    /\ \A k \in Entries :
         Processed(log[k]) =>
            \A i \in 1..Len(log[k].rec.innings) :
                LET ds == log[k].rec.innings[i].deliveries
                    rows == BowlingOf(log[k].after.matches, i)
                IN  \A x \in 1..Len(rows) :
                        LET balls == Cardinality(Bowled(ds, rows[x].player_name))
                            err == 6 * rows[x].overs - 10 * balls
                        IN  balls > 0 /\ -3 <= err /\ err <= 3

C20_Witness ==
    \E k \in Entries :
        /\ Processed(log[k])
        /\ LET ds == log[k].rec.innings[1].deliveries
               rows == BowlingOf(log[k].after.matches, 1)
           IN  \E x \in 1..Len(rows) :
                   /\ Cardinality(Bowled(ds, rows[x].player_name)) = 1
                   /\ rows[x].overs = 2

(***************************************************************************)
(* Analytics.                                                              *)
(***************************************************************************)
FactsOf(table, player_name) ==
    {i \in 1..Len(table) : table[i].player_name = player_name}

\* C11: classify_batsman with fewer than 10 innings of at least 10 balls
\* (none included) and classify_bowler with fewer than 10 distinct matches
\* of at least 2 overs return class "Insufficient Data" with confidence 0,
\* and consistency_index with fewer than 10 qualifying facts returns 0.
C11_InsufficientData ==
    LET bat == cin.store.batting
        bowl == cin.store.bowling
        innings == {i \in FactsOf(bat, cin.name) : bat[i].balls >= 10}
        matches == {bowl[i].match_id :
                       i \in {j \in FactsOf(bowl, cin.name) : bowl[j].overs >= 20}}
        samples == IF cin.role = "batting"
                   THEN {i \in FactsOf(bat, cin.name) : bat[i].balls >= 5}
                   ELSE {i \in FactsOf(bowl, cin.name) : bowl[i].overs >= 20}
    IN  /\ pc = "batsman_on_done" /\ Cardinality(innings) < 10 =>
            cout = [class |-> "Insufficient Data", confidence |-> 0]
        /\ pc = "bowler_on_done" /\ Cardinality(matches) < 10 =>
            cout = [class |-> "Insufficient Data", confidence |-> 0]
        /\ pc = "consistency_done" /\ Cardinality(samples) < 10 => cout = 0

C11_Witness ==
    /\ pc = "batsman_on_done"
    /\ Len(cin.store.batting) = 12
    /\ Cardinality({i \in FactsOf(cin.store.batting, cin.name) :
                       cin.store.batting[i].balls >= 10}) = 9
    /\ cout = [class |-> "Insufficient Data", confidence |-> 0]

\* C12: get_impact_score returns the mean of the batting and the bowling
\* impact when the player has a batting fact and a bowling fact in matches
\* the player's team won, whatever the two values, the one impact there is
\* when only one kind of fact exists, and 0 when neither does; the impact
\* of a kind is the average of the points of its facts.
C12_MeanWhenBothExist ==
    pc = "impact_done" =>
        LET st == cin.store
            WonBy(r) == \E x \in 1..Len(st.matches) :
                            /\ st.matches[x].match_id = r.match_id
                            /\ st.matches[x].winner = r.team
            bat == {i \in FactsOf(st.batting, cin.name) : WonBy(st.batting[i])}
            bowl == {i \in FactsOf(st.bowling, cin.name) : WonBy(st.bowling[i])}
            BatPts(i) == LET r == st.batting[i].runs
                         IN  IF r >= 50 THEN 100 ELSE IF r >= 30 THEN 70
                             ELSE IF r >= 20 THEN 50 ELSE 2 * r
            BowlPts(i) == LET w == st.bowling[i].wickets
                          IN  IF w >= 3 THEN 100 ELSE IF w >= 2 THEN 70
                              ELSE IF w >= 1 THEN 50 ELSE 20
            sb == SumSeq([i \in 1..Len(st.batting) |->
                             IF i \in bat THEN BatPts(i) ELSE 0])
            sw == SumSeq([i \in 1..Len(st.bowling) |->
                             IF i \in bowl THEN BowlPts(i) ELSE 0])
            nb == Cardinality(bat)
            nw == Cardinality(bowl)
        IN  cout = IF nb > 0 /\ nw > 0
                   THEN RoundDiv(100 * (sb * nw + sw * nb), 2 * nb * nw)
                   ELSE IF nb > 0 THEN RoundDiv(100 * sb, nb)
                   ELSE IF nw > 0 THEN RoundDiv(100 * sw, nw)
                   ELSE 0

\* C13: the sample of consistency_index is the most recent qualifying facts
\* in the order of the matches in time, at most 20 of them: no qualifying
\* fact of a later match is left out while one of an earlier match is used.
C13_MostRecentByMatchTime ==
    pc = "consistency_done" =>
        LET st == cin.store
            table == IF cin.role = "batting" THEN st.batting ELSE st.bowling
            Qualifies(r) == IF cin.role = "batting" THEN r.balls >= 5
                            ELSE r.overs >= 20
            all == {i \in FactsOf(table, cin.name) : Qualifies(table[i])}
            df == RecentSample(st, cin.name, cin.role)
            used == {df[x].id : x \in 1..Len(df)}
            DateOf(i) == LET m == CHOOSE x \in 1..Len(st.matches) :
                                     st.matches[x].match_id = table[i].match_id
                         IN  st.matches[m].match_date
        IN  /\ used \subseteq all
            /\ Cardinality(used) = Min(20, Cardinality(all))
            /\ \A f \in all \ used : \A g \in used : DateOf(f) <= DateOf(g)

\* C14: the result of consistency_index is between 0 and 100, also when
\* the mean of the sample is 0 or its deviation exceeds its mean.
C14_ConsistencyInRange ==
    pc = "consistency_done" => 0 <= cout /\ cout <= 10000

C14_Witness ==
    /\ pc = "consistency_done"
    /\ cin.role = "batting"
    /\ Len(cin.store.batting) = 12
    /\ \A i \in 1..12 :
         /\ cin.store.batting[i].player_name = cin.name
         /\ cin.store.batting[i].balls >= 5
         /\ cin.store.batting[i].runs = IF i = 12 THEN 14 ELSE 0
    /\ cout = 0

\* C19: get_team_profile for a team without matches or without batting
\* facts returns matches 0, win_percentage 0, avg_score 0 and highest_score
\* 0 for what is missing, toss_impact for a team that never won a toss
\* returns win_rate_after_toss 0, and neither raises.
C19_TeamAnalyzerOnEmptyData ==
    LET st == cin.store
        played == {x \in 1..Len(st.matches) :
                      st.matches[x].team1 = cin.name
                          \/ st.matches[x].team2 = cin.name}
        batted == {i \in 1..Len(st.batting) : st.batting[i].team = cin.name}
        tosses == {x \in 1..Len(st.matches) :
                      st.matches[x].toss_winner = cin.name}
    IN  /\ pc = "profile_done" /\ (played = {} \/ batted = {}) =>
            /\ cout.exc = "none"
            /\ played = {} =>
                   cout.value.matches = 0 /\ cout.value.win_percentage = 0
            /\ batted = {} =>
                   cout.value.avg_score = 0 /\ cout.value.highest_score = 0
        /\ pc = "toss_done" /\ tosses = {} =>
            /\ cout.exc = "none"
            /\ cout.value.win_rate_after_toss = 0

(***************************************************************************)
(* Facts of one innings: positions, bowling totals, dismissals.            *)
(***************************************************************************)
FirstFaced(ds, player) ==
    CHOOSE y \in Faced(ds, player) : \A z \in Faced(ds, player) : y <= z

\* C24: the positions of the BattingFacts of one innings are 1..k, k being
\* the number of batters of the innings, no two facts share a position, and
\* a batter whose first delivery as striker is earlier has the lower
\* position; every innings starts again at 1.
C24_PositionsByFirstDelivery ==
    \A k \in Entries :
        Processed(log[k]) =>
            \A i \in 1..Len(log[k].rec.innings) :
                LET ds == log[k].rec.innings[i].deliveries
                    rows == BattingOf(log[k].after.matches, i)
                    batters == {ds[y].batter : y \in 1..Len(ds)}
                IN  /\ {rows[x].position : x \in 1..Len(rows)}
                           = 1..Cardinality(batters)
                    /\ Len(rows) = Cardinality(batters)
                    /\ \A x, y \in 1..Len(rows) :
                         rows[x].position < rows[y].position <=>
                            FirstFaced(ds, rows[x].player_name)
                                < FirstFaced(ds, rows[y].player_name)

C24_Witness ==
    \E k \in Entries :
        /\ Processed(log[k])
        /\ Len(log[k].rec.innings) = 2
        /\ LET first == BattingOf(log[k].after.matches, 1)
               second == BattingOf(log[k].after.matches, 2)
           IN  /\ Len(first) = 2
               /\ first[2].position = 2
               /\ Len(second) = 2
               /\ second[1].position = 1
               /\ second[1].player_name = first[2].player_name

\* C25: for every innings the runs conceded of its BowlingFacts sum to the
\* runs.total of its deliveries, their dots to the number of deliveries
\* with runs.total 0 and their wickets to the number of wicket events, and
\* each fact's wickets are the wicket events of that bowler's deliveries.
C25_BowlingTotalsConserved ==
    \A k \in Entries :
        Processed(log[k]) =>
            \A i \in 1..Len(log[k].rec.innings) :
                LET ds == log[k].rec.innings[i].deliveries
                    rows == BowlingOf(log[k].after.matches, i)
                IN  /\ SumSeq([x \in 1..Len(rows) |-> rows[x].runs_conceded])
                         = SumSeq([y \in 1..Len(ds) |-> ds[y].rt])
                    /\ SumSeq([x \in 1..Len(rows) |-> rows[x].dots])
                         = Cardinality({y \in 1..Len(ds) : ds[y].rt = 0})
                    /\ SumSeq([x \in 1..Len(rows) |-> rows[x].wickets])
                         = SumSeq([y \in 1..Len(ds) |-> Len(ds[y].wickets)])
                    /\ \A x \in 1..Len(rows) :
                         rows[x].wickets =
                            SumSeq([y \in 1..Len(ds) |->
                                       IF ds[y].bowler = rows[x].player_name
                                       THEN Len(ds[y].wickets) ELSE 0])

C25_Witness ==
    \E k \in Entries :
        /\ Processed(log[k])
        /\ LET ds == log[k].rec.innings[1].deliveries
               rows == BowlingOf(log[k].after.matches, 1)
           IN  /\ \E y \in 1..Len(ds) : ds[y].rt > ds[y].rb
               /\ \E y \in 1..Len(ds) : ds[y].rt = 0 /\ ds[y].wickets # <<>>
               /\ Len(rows) = 2
               /\ rows[1].runs_conceded = 5
               /\ rows[2].wickets = 1 /\ rows[2].dots = 1

\* the wicket events that dismiss the striker, in delivery order
Dismissals(ds, player) ==
    {w \in {<<y, z>> : y \in 1..Len(ds), z \in 1..2} :
        /\ ds[w[1]].batter = player
        /\ w[2] <= Len(ds[w[1]].wickets)
        /\ ds[w[1]].wickets[w[2]].player_out = player}

\* C26: a BattingFact is not out exactly when its dismissal kind is null;
\* the kind is non-null exactly when a delivery the batter faced carries a
\* wicket event naming the batter, and is the kind of the last such event;
\* a wicket event naming another player than the striker changes no fact.
C26_DismissalOfStrikerOnly ==
    \A k \in Entries :
        Processed(log[k]) =>
            \A i \in 1..Len(log[k].rec.innings) :
                LET ds == log[k].rec.innings[i].deliveries
                    rows == BattingOf(log[k].after.matches, i)
                IN  \A x \in 1..Len(rows) :
                        LET out == Dismissals(ds, rows[x].player_name)
                        IN  /\ rows[x].is_not_out
                                   <=> rows[x].dismissal_kind = None
                            /\ rows[x].dismissal_kind # None <=> out # {}
                            /\ out # {} =>
                                  \E w \in out :
                                    /\ \A v \in out :
                                         v[1] < w[1]
                                           \/ (v[1] = w[1] /\ v[2] <= w[2])
                                    /\ rows[x].dismissal_kind =
                                         ds[w[1]].wickets[w[2]].kind

C26_Witness ==
    \E k \in Entries :
        /\ Processed(log[k])
        /\ Len(log[k].rec.innings) = 2
        /\ LET first == BattingOf(log[k].after.matches, 1)
               ds == log[k].rec.innings[1].deliveries
           IN  /\ \E y \in 1..Len(ds) :
                     /\ ds[y].wickets # <<>>
                     /\ ds[y].wickets[1].player_out # ds[y].batter
               /\ \A x \in 1..Len(first) : first[x].is_not_out
        /\ LET second == BattingOf(log[k].after.matches, 2)
           IN  \E x \in 1..Len(second) :
                   second[x].dismissal_kind = "bowled"

(***************************************************************************)
(* Classifier: determinism and the classes that can be returned.           *)
(***************************************************************************)
ConfidenceOf(class) ==
    CASE class = "Insufficient Data" -> 0
      [] class = "Power Hitter" -> 85
      [] class = "Finisher" -> 82
      [] class = "Aggressive Opener" -> 88
      [] class = "Anchor" -> 80
      [] class = "Accumulator" -> 75
      [] class = "Middle Order Stabilizer" -> 78
      [] class = "All-rounder Batsman" -> 65
      [] class = "Death Specialist" -> 85
      [] class = "Wicket Taker" -> 88
      [] class = "Economy Bowler" -> 82
      [] class = "Powerplay Expert" -> 80
      [] class = "All-Phase Bowler" -> 70
      [] OTHER -> -1

C29_NeverPowerplayExpert ==
    pc = "bowler_done" =>
        /\ cout.class # "Powerplay Expert"
        /\ cout.class \in {"Insufficient Data", "Death Specialist",
                            "Wicket Taker", "Economy Bowler",
                            "All-Phase Bowler"}
        /\ cin.n >= 10 /\ cin.wpm >= 100 /\ cin.economy < 800 =>
               cin.economy < 900 /\ cin.wpm >= 80

C29_Witness ==
    /\ pc = "bowler_done"
    /\ cin.n >= 10
    /\ cin.wpm = 100
    /\ cin.economy = 799
    /\ cout.class = "Death Specialist"

(***************************************************************************)
(* Batch commits.                                                          *)
(***************************************************************************)
IsPrefix(s, t) == Len(s) <= Len(t) /\ SubSeq(t, 1, Len(s)) = s

\* C23: during a run the matches processed since the last commit are the
\* processed count modulo 50, so fewer than 50, what is committed being the
\* rows up to that commit; a run that ended has all its rows committed.
C23_BatchCommits ==
    /\ pc = "loop" =>
        /\ Len(txn.matches) - Len(db.matches) = processed % 50
        /\ Len(txn.matches) - Len(db.matches) < 50
        /\ IsPrefix(db.matches, txn.matches)
        /\ IsPrefix(db.batting, txn.batting)
        /\ IsPrefix(db.bowling, txn.bowling)
        /\ Len(txn.batting) - Len(db.batting) = processed % 50
        /\ Len(txn.bowling) - Len(db.bowling) = processed % 50
    /\ pc = "idle" => db = txn

C23_Witness ==
    /\ pc = "loop"
    /\ processed = 50
    /\ skipped > 0
    /\ Len(db.matches) = 50
    /\ Len(db.batting) = 50
    /\ db = txn

(***************************************************************************)
(* Connection scope.                                                       *)
(***************************************************************************)
\* the operations of the latest use
OpsOfUse == {k \in 1..Len(log) : log[k].use = run}

WritesOfUse == {log[k].seq : k \in {j \in OpsOfUse : log[j].op = "write"}}

CommitsOfUse == {log[k].seq : k \in {j \in OpsOfUse : log[j].op = "commit"}}

Visible(use, seq) ==
    \E x \in 1..Len(db.matches) :
        db.matches[x].use = use /\ db.matches[x].seq = seq

Ended == pc = "idle" /\ run > 0

\* C21 as stated: a use commits exactly when its body returned, rolls back
\* and raises again when it raised, closes in both cases, and no write of a
\* body that raised is visible afterwards.
C21_NoWriteOfRaisingBodyVisible ==
    Ended =>
        /\ cout.close
        /\ cout.commit <=> cout.exc = "none"
        /\ cout.exc = "none" => \A w \in WritesOfUse : Visible(run, w)
        /\ cout.exc # "none" => \A w \in WritesOfUse : ~Visible(run, w)

\* C21 amended: as above, but of a body that raised the writes made before
\* its last own commit stay visible and only the later ones are discarded;
\* the explicit rollback is made for the exceptions the except clause
\* catches, the others lose their pending writes when the connection closes.
C21_UncommittedWritesDiscarded ==
    Ended =>
        /\ cout.close
        /\ cout.commit <=> cout.exc = "none"
        /\ cout.rollback <=> cout.exc = "Exception"
        /\ cout.exc = "none" => \A w \in WritesOfUse : Visible(run, w)
        /\ cout.exc # "none" =>
              \A w \in WritesOfUse :
                  Visible(run, w) <=> \E c \in CommitsOfUse : w < c
        /\ db = txn

C21_Witness ==
    /\ Ended
    /\ cout.exc = "KeyboardInterrupt"
    /\ WritesOfUse = {1, 3}
    /\ CommitsOfUse = {2}
    /\ Visible(run, 1)
    /\ ~Visible(run, 3)

FactsOfPlayer(store, name) ==
    {i \in 1..Len(store.batting) : store.batting[i].player_name = name}

\* C28: every batting fact written by the ingestion has
\* 4 * fours + 6 * sixes <= runs; on a store the ingestion committed
\* strike_rotation_ability returns a value between 0 and 100, and 0 for a
\* player without facts or without runs.
C28_StrikeRotationInRange ==
    /\ \A i \in 1..Len(txn.batting) :
           4 * txn.batting[i].fours + 6 * txn.batting[i].sixes
               <= txn.batting[i].runs
    /\ pc = "rotation_done" =>
           /\ cout.value \in 0..10000
           /\ (\A i \in FactsOfPlayer(cin.store, cin.name) :
                   cin.store.batting[i].runs = 0) => cout.value = 0

C28_Witness ==
    /\ pc = "rotation_done"
    /\ cin.name = "X"
    /\ Len(cin.store.batting) >= 2
    /\ \E i \in FactsOfPlayer(cin.store, "X") :
           cin.store.batting[i].fours = MaxInningsBalls
    /\ \E i \in FactsOfPlayer(cin.store, "X") :
           cin.store.batting[i].runs > 4 * cin.store.batting[i].fours
    /\ cout.value > 0
    /\ cout.value < 10000

NamedFinal(venue) == Contains(Lower(venue), TxtFinal)

\* the qualifying innings of a player in the matches at a venue named final
FinalVenueInnings(store, name) ==
    LET Test(b) ==
            /\ b.player_name = name
            /\ b.balls >= MinPressureBalls
            /\ \E m \in 1..Len(store.matches) :
                   /\ store.matches[m].match_id = b.match_id
                   /\ NamedFinal(store.matches[m].venue)
    IN  SelectSeq(store.batting, Test)

\* C30: every match row written by the ingestion has match type "Final" when
\* the venue name contains "final" in any letter case and "League"
\* otherwise, never "Qualifier" or "Eliminator"; the playoff average of
\* pressure_performance_rating on an ingested store is the average over the
\* qualifying innings in the matches whose venue name contains "final".
C30_FinalByVenueName ==
    /\ \A m \in 1..Len(txn.matches) :
           /\ txn.matches[m].match_type =
                  IF NamedFinal(txn.matches[m].venue) THEN "Final" ELSE "League"
           /\ txn.matches[m].match_type \notin {"Qualifier", "Eliminator"}
    /\ pc = "pressure_done" =>
           LET rows == FinalVenueInnings(cin.store, cin.name)
           IN  cout.playoff_avg =
                   IF rows = <<>> THEN 0
                   ELSE RoundDiv(RunsOf(rows) * 100, Len(rows))

C30_Witness ==
    /\ pc = "pressure_done"
    /\ cin.name = "X"
    /\ \E m \in 1..Len(cin.store.matches) :
           /\ cin.store.matches[m].venue = VenueFinal
           /\ cin.store.matches[m].match_type = "Final"
    /\ \E m \in 1..Len(cin.store.matches) :
           /\ cin.store.matches[m].venue = VenueFina
           /\ cin.store.matches[m].match_type = "League"
    /\ Len(OverallInnings(cin.store, "X")) = 2
    /\ Len(FinalVenueInnings(cin.store, "X")) = 1
    /\ cout.playoff_avg = 6000
    /\ cout.overall_avg = 5000
====
